---- MODULE Spec2Model ----
(***************************************************************************)
(* relint: a regex driven linter for VS Code.                              *)
(*                                                                         *)
(* Strings are sequences of UTF-16 code units (10 = line feed, 36 = '$',   *)
(* 38 = '&', 43 = '+', 47 = '/', 92 = '\', 97.. = 'a'..).  Offsets are     *)
(* 0-based as in JavaScript; the character at offset i of s is s[i + 1].   *)
(* A position is [line, character]; a range is [start, end] of positions.  *)
(***************************************************************************)
EXTENDS Integers, Sequences, FiniteSets, TLC

(***************************************************************************)
(* JavaScript values                                                       *)
(***************************************************************************)

\* the value undefined (an unset field or variable)
Undefined == [t |-> "undefined"]

\* the value null
Null == [t |-> "null"]

\* a value that is neither undefined nor null
Some(x) == [t |-> "value", v |-> x]

\* a ?? b
Nullish(a, b) == IF a.t = "value" THEN a ELSE b

\* !!s for an optional string held as a TLA+ string
Truthy(s) == s.t = "value" /\ s.v # ""

\* !!s for an optional string held as a sequence of code units
TruthySeq(s) == s.t = "value" /\ s.v # <<>>

Min2(a, b) == IF a <= b THEN a ELSE b

Max2(a, b) == IF a >= b THEN a ELSE b

\* s.substring(from, to)
Substring(s, from, to) == SubSeq(s, from + 1, to)

\* a < b on strings: lexicographic comparison of code units
RECURSIVE StrLess(_, _)
StrLess(a, b) ==
    IF b = <<>> THEN FALSE
    ELSE IF a = <<>> THEN TRUE
    ELSE IF Head(a) # Head(b) THEN Head(a) < Head(b)
    ELSE StrLess(Tail(a), Tail(b))

\* a <= b on strings
StrLeq(a, b) == ~StrLess(b, a)

(***************************************************************************)
(* Regular expressions: new RegExp(pattern, 'gim').  The pattern sources   *)
(* of the model use literals, the escape \n, character classes [..], the   *)
(* quantifiers + and ?, capture groups around one literal, escape or       *)
(* class, as in (a), (a+) and (a)?, and a lookahead around such a group,   *)
(* as in (?=(a+)).  A dangling quantifier, an unbalanced parenthesis, an   *)
(* unterminated class or a trailing backslash is a SyntaxError.  An item   *)
(* is [set, plus, opt, cap, ahead]: the characters it accepts, whether it  *)
(* repeats, whether it may be absent, whether it is a capture group and    *)
(* whether it is a lookahead, which consumes no text.                      *)
(***************************************************************************)

\* the 'i' flag: letters compare by their lower-case form
Canon(c) == IF c >= 65 /\ c <= 90 THEN c + 32 ELSE c

\* the outcome of a pattern that does not parse
SyntaxError == [ok |-> FALSE, items |-> <<>>]

RECURSIVE ParseClass(_, _, _)
ParseClass(src, i, acc) ==
    IF i > Len(src) THEN [ok |-> FALSE, set |-> {}, next |-> i]
    ELSE IF src[i] = 93 THEN [ok |-> TRUE, set |-> acc, next |-> i + 1]
    ELSE ParseClass(src, i + 1, acc \cup {Canon(src[i])})

\* one item without quantifier
Item(set) == [set |-> set, plus |-> FALSE, opt |-> FALSE, cap |-> FALSE, ahead |-> FALSE]

\* the literal, escape or class inside a capture group
ParseAtom(src, i) ==
    IF i > Len(src) \/ src[i] \in {40, 41, 43, 63} THEN [ok |-> FALSE, set |-> {}, next |-> i]
    ELSE IF src[i] = 92
    THEN IF i = Len(src) THEN [ok |-> FALSE, set |-> {}, next |-> i]
         ELSE [ok |-> TRUE,
               set |-> {IF src[i + 1] = 110 THEN 10 ELSE Canon(src[i + 1])},
               next |-> i + 2]
    ELSE IF src[i] = 91 THEN ParseClass(src, i + 1, {})
    ELSE [ok |-> TRUE, set |-> {Canon(src[i])}, next |-> i + 1]

RECURSIVE ParseItems(_, _, _)

\* the items after a character class was read
ParseItemsClass(src, acc, cls) ==
    IF cls.ok
    THEN ParseItems(src, cls.next, Append(acc, Item(cls.set)))
    ELSE SyntaxError

\* the items after a capture group: the atom, a + inside the group, the
\* closing parenthesis at offset close and a ? behind it
ParseGroupClose(src, acc, atom, plus, close) ==
    IF close > Len(src) \/ src[close] # 41 THEN SyntaxError
    ELSE IF close < Len(src) /\ src[close + 1] = 63
    THEN ParseItems(src, close + 2,
             Append(acc, [set |-> atom.set, plus |-> plus, opt |-> TRUE, cap |-> TRUE,
                          ahead |-> FALSE]))
    ELSE ParseItems(src, close + 1,
             Append(acc, [set |-> atom.set, plus |-> plus, opt |-> FALSE, cap |-> TRUE,
                          ahead |-> FALSE]))

\* the items after a lookahead around a capture group: the two closing
\* parentheses are at the offsets close and close + 1
ParseAheadClose(src, acc, atom, plus, close) ==
    IF close + 1 > Len(src) \/ src[close] # 41 \/ src[close + 1] # 41 THEN SyntaxError
    ELSE ParseItems(src, close + 2,
             Append(acc, [set |-> atom.set, plus |-> plus, opt |-> FALSE, cap |-> TRUE,
                          ahead |-> TRUE]))

ParseAhead(src, acc, atom) ==
    IF ~atom.ok THEN SyntaxError
    ELSE IF atom.next <= Len(src) /\ src[atom.next] = 43
    THEN ParseAheadClose(src, acc, atom, TRUE, atom.next + 1)
    ELSE ParseAheadClose(src, acc, atom, FALSE, atom.next)

ParseGroup(src, acc, atom) ==
    IF ~atom.ok THEN SyntaxError
    ELSE IF atom.next <= Len(src) /\ src[atom.next] = 43
    THEN ParseGroupClose(src, acc, atom, TRUE, atom.next + 1)
    ELSE ParseGroupClose(src, acc, atom, FALSE, atom.next)

ParseItems(src, i, acc) ==
    IF i > Len(src) THEN [ok |-> TRUE, items |-> acc]
    ELSE LET c == src[i] IN
         IF c = 43
         THEN IF acc = <<>> \/ acc[Len(acc)].plus \/ acc[Len(acc)].opt \/ acc[Len(acc)].cap
              THEN SyntaxError
              ELSE ParseItems(src, i + 1, [acc EXCEPT ![Len(acc)].plus = TRUE])
         ELSE IF c = 63
         THEN IF acc = <<>> \/ acc[Len(acc)].plus \/ acc[Len(acc)].opt \/ acc[Len(acc)].ahead
              THEN SyntaxError
              ELSE ParseItems(src, i + 1, [acc EXCEPT ![Len(acc)].opt = TRUE])
         ELSE IF c = 40
         THEN IF i + 3 <= Len(src) /\ src[i + 1] = 63 /\ src[i + 2] = 61 /\ src[i + 3] = 40
              THEN ParseAhead(src, acc, ParseAtom(src, i + 4))
              ELSE ParseGroup(src, acc, ParseAtom(src, i + 1))
         ELSE IF c = 41
         THEN SyntaxError
         ELSE IF c = 92
         THEN IF i = Len(src)
              THEN SyntaxError
              ELSE ParseItems(src, i + 2, Append(acc,
                       Item({IF src[i + 1] = 110 THEN 10 ELSE Canon(src[i + 1])})))
         ELSE IF c = 91
         THEN ParseItemsClass(src, acc, ParseClass(src, i + 1, {}))
         ELSE ParseItems(src, i + 1, Append(acc, Item({Canon(c)})))

\* new RegExp(source, 'gim'): .ok is FALSE when the constructor throws
\* a new object starts with lastIndex 0
RegExpObject(parsed) == [ok |-> parsed.ok, items |-> parsed.items, lastIndex |-> 0]

NewRegExp(source) == RegExpObject(ParseItems(source, 1, <<>>))

\* number of consecutive characters of text from offset pos that are in set
RECURSIVE RunLength(_, _, _)
RunLength(set, text, pos) ==
    IF pos < Len(text) /\ Canon(text[pos + 1]) \in set
    THEN 1 + RunLength(set, text, pos + 1)
    ELSE 0

\* the most characters an item can take at offset pos
MaxTake(item, text, pos) ==
    IF item.plus THEN RunLength(item.set, text, pos)
    ELSE IF pos < Len(text) /\ Canon(text[pos + 1]) \in item.set THEN 1
    ELSE 0

\* the fewest characters an item must take
MinTake(item) == IF item.opt THEN 0 ELSE 1

\* the characters an item that took n characters consumes
Advance(item, n) == IF item.ahead THEN 0 ELSE n

\* end offset of the match of items[k..] at offset pos (greedy, backtracking), -1 if none
RECURSIVE MatchFrom(_, _, _, _)
RECURSIVE MatchRun(_, _, _, _, _)
MatchFrom(items, k, text, pos) ==
    IF k > Len(items) THEN pos
    ELSE MatchRun(items, k, text, pos, MaxTake(items[k], text, pos))

\* item k taking n characters followed by the rest of the items, or taking fewer
MatchRunRest(items, k, text, pos, n, rest) ==
    IF rest # -1 THEN rest ELSE MatchRun(items, k, text, pos, n - 1)

MatchRun(items, k, text, pos, n) ==
    IF n < MinTake(items[k]) THEN -1
    ELSE MatchRunRest(items, k, text, pos, n,
             MatchFrom(items, k + 1, text, pos + Advance(items[k], n)))

\* the number of characters item k takes in the match of items[k..] at pos
RECURSIVE Taken(_, _, _, _, _)
Taken(items, k, text, pos, n) ==
    IF n <= MinTake(items[k])
          \/ MatchFrom(items, k + 1, text, pos + Advance(items[k], n)) # -1 THEN n
    ELSE Taken(items, k, text, pos, n - 1)

\* the capture groups of the match of items[k..] at pos: a group that took
\* part in the match holds its text, any other is undefined
RECURSIVE Captures(_, _, _, _)

CapturesAfter(items, k, text, pos, n) ==
    (IF items[k].cap
     THEN <<IF n = 0 THEN Undefined ELSE Some(Substring(text, pos, pos + n))>>
     ELSE <<>>) \o Captures(items, k + 1, text, pos + Advance(items[k], n))

Captures(items, k, text, pos) ==
    IF k > Len(items) THEN <<>>
    ELSE CapturesAfter(items, k, text, pos,
             Taken(items, k, text, pos, MaxTake(items[k], text, pos)))

NoMatch == [found |-> FALSE, index |-> 0, end |-> 0, groups |-> <<>>]

\* regex.exec(text) with regex.lastIndex = lastIndex: the leftmost match at or
\* after lastIndex; .end is the lastIndex the call leaves (0 when it fails),
\* .groups are array[1], array[2], ..
ExecAt(re, text, lastIndex, e) ==
    [found |-> TRUE, index |-> lastIndex, end |-> e,
     groups |-> Captures(re.items, 1, text, lastIndex)]

\* the offsets at or after lastIndex the pattern matches at
ExecHits(re, text, lastIndex) ==
    {i \in lastIndex..Len(text) : MatchFrom(re.items, 1, text, i) # -1}

\* the match at the least of the offsets hits
ExecFirst(re, text, index) ==
    ExecAt(re, text, index, MatchFrom(re.items, 1, text, index))

ExecLeast(re, text, hits) ==
    IF hits = {} THEN NoMatch
    ELSE ExecFirst(re, text, CHOOSE i \in hits : \A j \in hits : i <= j)

Exec(re, text, lastIndex) == ExecLeast(re, text, ExecHits(re, text, lastIndex))

\* matched text of an exec result: array[0]
MatchText(text, m) == Substring(text, m.index, m.end)

\* the text a template inserts for group n: empty for a group that did not take part
GroupText(groups, n) == IF groups[n] = Undefined THEN <<>> ELSE groups[n].v

\* expansion of a replacement template for one match: $& is the match, $$ a
\* dollar, $1..$9 the text of a group the pattern has
RECURSIVE Expand(_, _, _)
Expand(tpl, match, groups) ==
    IF tpl = <<>> THEN <<>>
    ELSE IF Len(tpl) >= 2 /\ tpl[1] = 36 /\ tpl[2] = 38
    THEN match \o Expand(SubSeq(tpl, 3, Len(tpl)), match, groups)
    ELSE IF Len(tpl) >= 2 /\ tpl[1] = 36 /\ tpl[2] = 36
    THEN <<36>> \o Expand(SubSeq(tpl, 3, Len(tpl)), match, groups)
    ELSE IF Len(tpl) >= 2 /\ tpl[1] = 36 /\ tpl[2] \in 49..57 /\ tpl[2] - 48 <= Len(groups)
    THEN GroupText(groups, tpl[2] - 48) \o Expand(SubSeq(tpl, 3, Len(tpl)), match, groups)
    ELSE <<tpl[1]>> \o Expand(Tail(tpl), match, groups)

\* text.replace(regex, tpl) for a global regex: every match, scanning from offset 0
RECURSIVE ReplaceFrom(_, _, _, _)

\* the replaced text from offset pos on, m being the next match
ReplaceMatch(text, re, tpl, pos, m) ==
    IF ~m.found THEN Substring(text, pos, Len(text))
    ELSE Substring(text, pos, m.index) \o Expand(tpl, MatchText(text, m), m.groups)
             \o ReplaceFrom(text, re, tpl, m.end)

ReplaceFrom(text, re, tpl, pos) == ReplaceMatch(text, re, tpl, pos, Exec(re, text, pos))

Replace(text, re, tpl) == ReplaceFrom(text, re, tpl, 0)

\* text.replace(search, by) for a string search: the first occurrence only
RECURSIVE ReplaceFirstStr(_, _, _)
ReplaceFirstStr(text, search, by) ==
    IF Len(text) < Len(search) THEN text
    ELSE IF SubSeq(text, 1, Len(search)) = search
    THEN Expand(by, search, <<>>) \o SubSeq(text, Len(search) + 1, Len(text))
    ELSE <<text[1]>> \o ReplaceFirstStr(Tail(text), search, by)

(***************************************************************************)
(* Rule compilation (rule.ts)                                              *)
(***************************************************************************)

\* enum FixTypes as compiled: names map to numbers and numbers back to names
FixTypes ==
    [k \in {"reorder_asc", "reorder_desc", "replace", "0", "1", "2"} |->
        CASE k = "reorder_asc" -> "0"
          [] k = "reorder_desc" -> "1"
          [] k = "replace" -> "2"
          [] k = "0" -> "reorder_asc"
          [] k = "1" -> "reorder_desc"
          [] k = "2" -> "replace"]

\* vscode.DiagnosticSeverity, by member name
DiagnosticSeverity == [Error |-> 0, Warning |-> 1, Information |-> 2, Hint |-> 3]

\* class Default with another severity
DefaultError ==
    [Fix |-> <<36, 38>>, FixType |-> "replace", Language |-> "plaintext",
     MaxLines |-> 1, Severity |-> "Error"]

\* class Default
Default ==
    [Fix |-> <<36, 38>>, FixType |-> "replace", Language |-> "plaintext",
     MaxLines |-> 1, Severity |-> "Warning"]

\* the validity filter of getRules; null >= 0 holds
RuleFilter(c) ==
    /\ (c.fixType = Undefined \/ (c.fixType.t = "value" /\ c.fixType.v \in DOMAIN FixTypes))
    /\ (c.maxLines = Undefined \/ c.maxLines = Null
           \/ (c.maxLines.t = "value" /\ c.maxLines.v >= 0))
    /\ Truthy(c.message)
    /\ (c.language = Undefined \/ Truthy(c.language))
    /\ Truthy(c.name)
    /\ TruthySeq(c.pattern)
    /\ (c.severity = Undefined
           \/ (c.severity.t = "value" /\ c.severity.v \in DOMAIN DiagnosticSeverity))
    /\ (c.fix = Undefined \/ c.fix # Null)

\* config.get<string>(ConfigSection.Language) || Default.Language
GlobalLanguage(cfg) == IF Truthy(cfg.language) THEN cfg.language.v ELSE Default.Language

\* the two map steps of getRules for one accepted entry
CompileRule(c, globalLanguage) ==
    LET language == IF c.language = Undefined THEN globalLanguage ELSE c.language.v
        fixType == IF Truthy(c.fixType) THEN c.fixType.v ELSE Default.FixType
    IN  [id |-> <<47>> \o c.pattern.v \o <<47>>,
         fixType |-> fixType,
         language |-> IF language # "" THEN language ELSE Default.Language,
         maxLines |-> IF fixType = "replace"
                      THEN Nullish(c.maxLines, Some(Default.MaxLines)).v
                      ELSE Nullish(c.maxLines, Some(0)).v,
         message |-> c.message.v,
         name |-> c.name.v,
         regex |-> NewRegExp(c.pattern.v),
         severityCode |-> IF c.severity.t = "value"
                          THEN DiagnosticSeverity[c.severity.v]
                          ELSE DiagnosticSeverity[Default.Severity],
         fix |-> IF fixType = "replace" THEN c.fix
                 ELSE IF TruthySeq(c.fix) THEN c.fix ELSE Some(Default.Fix)]

\* getRules: .threw when a RegExp constructor raises out of the map
MapOutcome(compiled) ==
    IF \E i \in 1..Len(compiled) : ~compiled[i].regex.ok
    THEN [threw |-> TRUE, rules |-> <<>>]
    ELSE [threw |-> FALSE, rules |-> compiled]

\* the map steps over the entries the filter kept
MapRules(kept, globalLanguage) ==
    MapOutcome([i \in 1..Len(kept) |-> CompileRule(kept[i], globalLanguage)])

getRules(cfg) ==
    MapRules(SelectSeq(Nullish(cfg.rules, Some(<<>>)).v, RuleFilter), GlobalLanguage(cfg))

(***************************************************************************)
(* Documents, positions and ranges (vscode.TextDocument, Position, Range)  *)
(***************************************************************************)

\* offset of the first character of the given line (lines end with a line feed)
RECURSIVE LineStart(_, _, _)
LineStart(text, line, from) ==
    IF line = 0 THEN from
    ELSE IF from >= Len(text) THEN Len(text)
    ELSE IF text[from + 1] = 10 THEN LineStart(text, line - 1, from + 1)
    ELSE LineStart(text, line, from + 1)

\* number of line feeds before the offset
RECURSIVE LineCountBefore(_, _)
LineCountBefore(text, offset) ==
    IF offset = 0 THEN 0
    ELSE (IF text[offset] = 10 THEN 1 ELSE 0) + LineCountBefore(text, offset - 1)

\* document.positionAt(offset)
PositionOnLine(text, o, line) == [line |-> line, character |-> o - LineStart(text, line, 0)]

\* the position of an offset within the text
PositionOf(text, o) == PositionOnLine(text, o, LineCountBefore(text, o))

PositionAt(text, offset) == PositionOf(text, Max2(0, Min2(offset, Len(text))))

\* document.offsetAt(position)
\* the offset in a line that starts at start, the next line starting at next
OffsetInLine(text, pos, start, next) ==
    Min2(start + pos.character, IF next > start /\ text[next] = 10 THEN next - 1 ELSE next)

OffsetAt(text, pos) ==
    OffsetInLine(text, pos, LineStart(text, pos.line, 0), LineStart(text, pos.line + 1, 0))

\* Position.isBeforeOrEqual
PosLeq(a, b) == a.line < b.line \/ (a.line = b.line /\ a.character <= b.character)

PosMin(a, b) == IF PosLeq(a, b) THEN a ELSE b

PosMax(a, b) == IF PosLeq(a, b) THEN b ELSE a

\* Range.union
RangeUnion(r, other) ==
    [start |-> PosMin(r.start, other.start), end |-> PosMax(r.end, other.end)]

\* Range.intersection(other) !== undefined: ranges that only touch intersect
RangeIntersects(r, other) ==
    PosLeq(PosMax(r.start, other.start), PosMin(r.end, other.end))

\* document.getText(range)
GetText(text, range) ==
    Substring(text, OffsetAt(text, range.start), OffsetAt(text, range.end))

(***************************************************************************)
(* util.ts                                                                 *)
(***************************************************************************)

\* the comparator lambdas handed to sortedIndex, by name; the t.. forms
\* compare the tokens of [index, token] tuples
Comparator(name, a, b) ==
    CASE name = "lt" -> StrLess(a, b)
      [] name = "le" -> StrLeq(a, b)
      [] name = "gt" -> StrLess(b, a)
      [] name = "ge" -> StrLeq(b, a)
      [] name = "tlt" -> StrLess(a[2], b[2])
      [] name = "tle" -> StrLeq(a[2], b[2])
      [] name = "tgt" -> StrLess(b[2], a[2])
      [] name = "tge" -> StrLeq(b[2], a[2])

\* one iteration of the while loop of sortedIndex that keeps the middle
\* element in the upper half
sortedIndexStepWide(sortedArray, item, comparator, lo, hi) ==
    IF Comparator(comparator, sortedArray[((lo + hi) \div 2) + 1], item)
    THEN [lo |-> (lo + hi) \div 2, hi |-> hi]
    ELSE [lo |-> lo, hi |-> (lo + hi) \div 2]

\* one iteration of the while loop of sortedIndex: the new lo and hi
sortedIndexStep(sortedArray, item, comparator, lo, hi) ==
    IF Comparator(comparator, sortedArray[((lo + hi) \div 2) + 1], item)
    THEN [lo |-> ((lo + hi) \div 2) + 1, hi |-> hi]
    ELSE [lo |-> lo, hi |-> (lo + hi) \div 2]

RECURSIVE sortedIndexLoop(_, _, _, _, _)
sortedIndexLoop(sortedArray, item, comparator, lo, hi) ==
    IF lo < hi
    THEN IF Comparator(comparator, sortedArray[((lo + hi) \div 2) + 1], item)
         THEN sortedIndexLoop(sortedArray, item, comparator, ((lo + hi) \div 2) + 1, hi)
         ELSE sortedIndexLoop(sortedArray, item, comparator, lo, (lo + hi) \div 2)
    ELSE lo

sortedIndex(sortedArray, item, comparator) ==
    sortedIndexLoop(sortedArray, item, comparator, 0, Len(sortedArray))

\* array.splice(index, 0, item)
SpliceIn(array, index, item) ==
    SubSeq(array, 1, index) \o <<item>> \o SubSeq(array, index + 1, Len(array))

(***************************************************************************)
(* Diagnostics (diagnostics.ts)                                            *)
(***************************************************************************)

DiagnosticCollectionName == "relint"

\* the length of the longest of the groups of a match, array[0] included
RECURSIVE LongestGroup(_, _)
LongestGroup(groups, longest) ==
    IF groups = <<>> THEN longest
    ELSE LongestGroup(Tail(groups),
             IF Head(groups) # Undefined /\ Len(Head(groups).v) > longest
             THEN Len(Head(groups).v) ELSE longest)

\* the range of a match sized by its longest group
rangeFromMatchLongest(text, array) ==
    [start |-> PositionAt(text, array.index),
     end |-> PositionAt(text,
                 array.index + LongestGroup(array.groups, Len(MatchText(text, array))))]

\* rangeFromMatch(document, matchArray): the range of array[0]
rangeFromMatch(text, array) ==
    [start |-> PositionAt(text, array.index),
     end |-> PositionAt(text, array.index + Len(MatchText(text, array)))]

createDiagnostic(source, text, matchArray, rule) ==
    [ruleId |-> rule.id,
     range |-> rangeFromMatch(text, matchArray),
     message |-> rule.message,
     severity |-> rule.severityCode,
     source |-> source,
     code |-> rule.name,
     relatedInformation |-> Undefined]

\* Diagnostic.effectiveRange
RECURSIVE UnionAll(_, _)
UnionAll(range, infos) ==
    IF infos = <<>> THEN range
    ELSE UnionAll(RangeUnion(range, Head(infos).location.range), Tail(infos))

effectiveRange(diagnostic) ==
    IF diagnostic.relatedInformation = Undefined THEN diagnostic.range
    ELSE UnionAll(diagnostic.range, diagnostic.relatedInformation.v)

\* the scan of a replace rule: one diagnostic per match
RECURSIVE ReplaceScan(_, _, _, _)

\* the body of the while loop of a replace rule for the exec result array
ReplaceStep(text, rule, list, array) ==
    IF ~array.found THEN list
    ELSE ReplaceScan(text, rule, array.end,
             Append(list, createDiagnostic(DiagnosticCollectionName, text, array, rule)))

ReplaceScan(text, rule, lastIndex, list) ==
    ReplaceStep(text, rule, list, Exec(rule.regex, text, lastIndex))

\* the order check with strict comparators: equal tokens count as inversions
OrderComparatorStrict(fixType) == IF fixType = "reorder_asc" THEN "lt" ELSE "gt"

\* the comparator of the order check
OrderComparator(fixType) == IF fixType = "reorder_asc" THEN "le" ELSE "ge"

\* the scan of a reorder rule: st holds entry, sorter, count and isBad
RECURSIVE ReorderScan(_, _, _, _)

\* the entry that also lists the first match among its related ranges
ReorderEntryRepeated(text, rule, st, array) ==
    [(IF st.entry = Undefined
      THEN [createDiagnostic(DiagnosticCollectionName, text, array, rule)
               EXCEPT !.relatedInformation = Some(<<>>)]
      ELSE st.entry.v)
        EXCEPT !.relatedInformation =
            Some(Append(@.v,
                [location |-> [range |-> rangeFromMatch(text, array)],
                 message |-> "related match here"]))]

\* the entry after a match: created for the first match, extended by a
\* related range for every later one
ReorderEntry(text, rule, st, array) ==
    IF st.entry = Undefined
    THEN [createDiagnostic(DiagnosticCollectionName, text, array, rule)
             EXCEPT !.relatedInformation = Some(<<>>)]
    ELSE [st.entry.v EXCEPT !.relatedInformation =
             Some(Append(@.v,
                 [location |-> [range |-> rangeFromMatch(text, array)],
                  message |-> "related match here"]))]

\* the order check of one match: the token spliced into sorter at index
ReorderCheck(st, entry, token, index) ==
    [entry |-> Some(entry),
     sorter |-> SpliceIn(st.sorter, index, token),
     count |-> st.count + 1,
     isBad |-> st.count # index]

\* the token of a match and its insertion index
ReorderToken(rule, st, entry, token) ==
    ReorderCheck(st, entry, token,
        sortedIndex(st.sorter, token, OrderComparator(rule.fixType)))

\* the body of the while loop of a reorder rule for the exec result array
ReorderStep(text, rule, st, array) ==
    IF ~array.found THEN st
    ELSE ReorderScan(text, rule, array.end,
             IF st.isBad
             THEN [st EXCEPT !.entry = Some(ReorderEntry(text, rule, st, array))]
             ELSE ReorderToken(rule, st, ReorderEntry(text, rule, st, array),
                      Replace(MatchText(text, array), rule.regex, rule.fix.v)))

ReorderScan(text, rule, lastIndex, st) ==
    ReorderStep(text, rule, st, Exec(rule.regex, text, lastIndex))

\* the diagnostics one rule contributes to the list
ReorderOutcome(st) == IF st.isBad THEN <<st.entry.v>> ELSE <<>>

RuleDiagnostics(text, rule) ==
    IF rule.fixType = "replace"
    THEN ReplaceScan(text, rule, 0, <<>>)
    ELSE IF rule.fix = Undefined THEN <<>>
    ELSE ReorderOutcome(ReorderScan(text, rule, 0,
             [entry |-> Undefined, sorter |-> <<>>, count |-> 0, isBad |-> FALSE]))

RECURSIVE ScanRules(_, _)
ScanRules(text, rules) ==
    IF rules = <<>> THEN <<>>
    ELSE RuleDiagnostics(text, Head(rules)) \o ScanRules(text, Tail(rules))

\* the rules of every language
RulesForAny(allRules, languageId) == allRules

\* the rules of the document's language
RulesFor(allRules, languageId) ==
    SelectSeq(allRules, LAMBDA rule : rule.language = languageId)

\* the list set only when a rule applies to the document
DiagnosticsSetIfRules(previous, rules, diagnosticList) ==
    IF Len(rules) > 0 THEN diagnosticList ELSE previous

\* diagnostics.set(document.uri, diagnosticList), run for every refresh
DiagnosticsSet(previous, rules, diagnosticList) == diagnosticList

\* refreshDiagnostics: the list published for the document
refreshDiagnostics(text, languageId, allRules, previous) ==
    LET rules == RulesFor(allRules, languageId)
        diagnosticList == IF Len(rules) > 0 THEN ScanRules(text, rules) ELSE <<>>
    IN  DiagnosticsSet(previous, rules, diagnosticList)

(***************************************************************************)
(* Fixes (fixes.ts): the text based fix engine                             *)
(***************************************************************************)

MaxFixIters == 64

\* getFixes: one fix per rule that defines a fix; new RegExp(rule.regex) copies
\* the pattern and starts at lastIndex 0
getFixes(allRules) ==
    LET withFix == SelectSeq(allRules, LAMBDA rule : rule.fix # Undefined) IN
    [i \in 1..Len(withFix) |->
        [group |-> withFix[i].name,
         language |-> withFix[i].language,
         regex |-> [withFix[i].regex EXCEPT !.lastIndex = 0],
         ruleId |-> withFix[i].id,
         string |-> withFix[i].fix.v,
         type |-> withFix[i].fixType]]

\* applyReplaceFix(text, fix): test starts at fix.regex.lastIndex; the global
\* replace that follows a successful test, and a failed test, leave lastIndex 0
applyReplaceFix(text, fix) ==
    IF ~Exec(fix.regex, text, fix.regex.lastIndex).found THEN Undefined
    ELSE Some(Replace(text, fix.regex, fix.string))

\* the comparator of the text based reorder fix
ReorderComparator(type) == IF type = "reorder_asc" THEN "tle" ELSE "tge"

\* the exec loop of applyReorderFix(text, fix); it ends on a failed exec, which
\* leaves lastIndex 0
RECURSIVE ReorderCollect(_, _, _, _)

\* the tuple spliced into sorter at index, the match pushed on bucket
CollectAt(st, array, match, tuple, index) ==
    [sorter |-> SpliceIn(st.sorter, index, tuple),
     bucket |-> Append(st.bucket, <<match, array.index>>),
     doFix |-> st.doFix \/ st.count # index,
     count |-> st.count + 1]

\* the tuple of a match and its insertion index
CollectTuple(fix, st, array, match, tuple) ==
    CollectAt(st, array, match, tuple,
        sortedIndex(st.sorter, tuple, ReorderComparator(fix.type)))

\* the token of a match; lastIndex is restored after the replace
CollectMatch(fix, st, array, match) ==
    CollectTuple(fix, st, array, match, <<st.count, Replace(match, fix.regex, fix.string)>>)

\* the body of the while loop of applyReorderFix for the exec result array
CollectStep(text, fix, st, array) ==
    IF ~array.found THEN st
    ELSE ReorderCollect(text, fix, array.end,
             CollectMatch(fix, st, array, MatchText(text, array)))

ReorderCollect(text, fix, lastIndex, st) ==
    CollectStep(text, fix, st, Exec(fix.regex, text, lastIndex))

\* the rebuild loop of applyReorderFix(text, fix), from entry i of sorter on
RECURSIVE ReorderBuild(_, _, _, _, _)

\* the body of the rebuild loop: the part up to the end of match0, with
\* match0 replaced by match1
BuildPart(text, sorter, bucket, i, offset, match0, index0, match1) ==
    ReplaceFirstStr(Substring(text, offset, index0 + Len(match0)), match0, match1)
        \o ReorderBuild(text, sorter, bucket, i + 1, index0 + Len(match0))

ReorderBuild(text, sorter, bucket, i, offset) ==
    IF i > Len(sorter) THEN Substring(text, offset, Len(text))
    ELSE BuildPart(text, sorter, bucket, i, offset,
             bucket[i][1], bucket[i][2], bucket[sorter[i][1] + 1][1])

\* applyReorderFix(text, fix) of the text based engine
ReorderResult(text, st) ==
    IF ~st.doFix THEN Undefined
    ELSE Some(ReorderBuild(text, st.sorter, st.bucket, 1, 0))

applyReorderFix(text, fix) ==
    ReorderResult(text,
        ReorderCollect(text, fix, fix.regex.lastIndex,
            [sorter |-> <<>>, bucket |-> <<>>, doFix |-> FALSE, count |-> 0]))

\* one fix of the group applied to the text
applySingleFix(textToBeFixed, fix) ==
    IF fix.type = "replace" THEN applyReplaceFix(textToBeFixed, fix)
    ELSE IF fix.type \in {"reorder_asc", "reorder_desc"}
    THEN applyReorderFix(textToBeFixed, fix)
    ELSE Undefined

\* the inner loop of applyFixes over the fixes of the group; .applied counts
\* the fixes that matched
RECURSIVE GroupPass(_, _, _, _, _)

\* the rest of the inner loop after one fix returned singleFixedText
GroupPassNext(fixGroup, groupFixedText, fixedText, rangeText, applied, singleFixedText) ==
    IF singleFixedText # Undefined
    THEN GroupPass(Tail(fixGroup), singleFixedText, fixedText, rangeText, applied + 1)
    ELSE GroupPass(Tail(fixGroup), groupFixedText, fixedText, rangeText, applied)

GroupPass(fixGroup, groupFixedText, fixedText, rangeText, applied) ==
    IF fixGroup = <<>> THEN [groupFixedText |-> groupFixedText, applied |-> applied]
    ELSE GroupPassNext(fixGroup, groupFixedText, fixedText, rangeText, applied,
             applySingleFix(Nullish(groupFixedText, Nullish(fixedText, Some(rangeText))).v,
                            Head(fixGroup)))

\* the loop condition with the cap off by one
FixIterInRangeInclusive(fixIter) == fixIter <= MaxFixIters

\* the loop condition of the fix iteration
FixIterInRange(fixIter) == fixIter < MaxFixIters

\* the end of one iteration that leaves the loop after the first iteration
\* in which a fix matched
FixIterationEndOnce(s, pass) ==
    IF pass.groupFixedText = Undefined
    THEN [s EXCEPT !.stopped = TRUE]
    ELSE [s EXCEPT !.fixedText = pass.groupFixedText,
                   !.iters = @ + 1,
                   !.applied = pass.applied,
                   !.stopped = TRUE]

\* the end of one iteration: break when no fix of the group matched
FixIterationEnd(s, pass) ==
    IF pass.groupFixedText = Undefined
    THEN [s EXCEPT !.stopped = TRUE]
    ELSE [s EXCEPT !.fixedText = pass.groupFixedText,
                   !.iters = @ + 1,
                   !.applied = pass.applied]

\* one evaluation of the loop condition of applyFixes and, when it holds, one
\* run of the loop body; nothing changes once the loop has stopped, and
\* .capped tells that it stopped by its condition
FixIteration(fixGroup, rangeText, s) ==
    IF s.stopped THEN s
    ELSE IF ~FixIterInRange(s.iters) THEN [s EXCEPT !.stopped = TRUE, !.capped = TRUE]
    ELSE FixIterationEnd(s, GroupPass(fixGroup, Undefined, s.fixedText, rangeText, s.applied))

\* n iterations from the loop state s, the first half before the second
RECURSIVE FixIterations(_, _, _, _)
FixIterations(fixGroup, rangeText, s, n) ==
    IF n = 0 THEN s
    ELSE IF n = 1 THEN FixIteration(fixGroup, rangeText, s)
    ELSE CHOOSE r \in { FixIterations(fixGroup, rangeText, half, n - (n \div 2)) :
                            half \in {FixIterations(fixGroup, rangeText, s, n \div 2)} } :
             TRUE

\* the outer loop of applyFixes: its condition is evaluated MaxFixIters + 1
\* times at most
FixLoop(fixGroup, rangeText) ==
    FixIterations(fixGroup, rangeText,
        [fixedText |-> Undefined, iters |-> 0, applied |-> 0, capped |-> FALSE,
         stopped |-> FALSE],
        MaxFixIters + 2)

\* the reduce that widens the edit range over the diagnostic list
RECURSIVE EditRangeReduce(_, _)

\* the callback of the reduce
EditRangeStep(range, fixRange) ==
    IF RangeIntersects(fixRange, range) THEN RangeUnion(fixRange, range) ELSE range

EditRangeReduce(diagnostics, range) ==
    IF diagnostics = <<>> THEN range
    ELSE EditRangeReduce(Tail(diagnostics),
             EditRangeStep(range, effectiveRange(Head(diagnostics))))

\* the fixes of the diagnostic's group
FixGroup(fixes, diagnostic) == SelectSeq(fixes, LAMBDA fix : fix.group = diagnostic.code)

\* the outcome of a loop that gives up its text when it ends at the cap
FixOutcomeFailing(editRange, loop) ==
    [editRange |-> editRange,
     fixedText |-> IF loop.capped THEN Undefined ELSE loop.fixedText,
     iters |-> loop.iters, applied |-> loop.applied, capped |-> loop.capped]

\* the body of applyFixes for one diagnostic: edit range and outcome of the loop
FixOutcome(editRange, loop) ==
    [editRange |-> editRange, fixedText |-> loop.fixedText, iters |-> loop.iters,
     applied |-> loop.applied, capped |-> loop.capped]

\* the fix loop over the text of the edit range
FixRange(text, fixes, diagnostic, editRange) ==
    FixOutcome(editRange,
        FixLoop(FixGroup(fixes, diagnostic), GetText(text, editRange)))

FixOne(text, diagnostics, fixes, diagnostic) ==
    FixRange(text, fixes, diagnostic,
        EditRangeReduce(diagnostics, effectiveRange(diagnostic)))

\* the loop outcomes of applyFixes, one per diagnostic
FixRuns(text, diagnostics, fixes) ==
    [i \in 1..Len(diagnostics) |-> FixOne(text, diagnostics, fixes, diagnostics[i])]

\* applyFixes: one edit per diagnostic whose loop produced a text
RECURSIVE EditsOf(_)
EditsOf(runs) ==
    IF runs = <<>> THEN <<>>
    ELSE (IF Head(runs).fixedText # Undefined
          THEN <<[range |-> Head(runs).editRange, newText |-> Head(runs).fixedText.v]>>
          ELSE <<>>) \o EditsOf(Tail(runs))

applyFixes(text, diagnostics, fixes) == EditsOf(FixRuns(text, diagnostics, fixes))

\* array.splice(index, 1)
RemoveAt(array, index) == SubSeq(array, 1, index) \o SubSeq(array, index + 2, Len(array))

\* newFixes.findIndex(({ ruleId }) => ruleId === fix.ruleId), from index j on
RECURSIVE FindIndexByRuleId(_, _, _)
FindIndexByRuleId(newFixes, ruleId, j) ==
    IF j >= Len(newFixes) THEN -1
    ELSE IF newFixes[j + 1].ruleId = ruleId THEN j
    ELSE FindIndexByRuleId(newFixes, ruleId, j + 1)

\* deregisterFix(context, fix) for a language that disposableCache holds: the
\* providers are disposed and the entry deleted when the count reaches 0
deregisterFix(cache, fix) ==
    IF cache[fix.language].count - 1 <= 0
    THEN [l \in DOMAIN cache \ {fix.language} |-> cache[l]]
    ELSE [cache EXCEPT ![fix.language].count = @ - 1]

\* the body of the loop of registerFixes: provider is the array the new
\* QuickFixProvider and FixAllProvider are constructed with
registerFix(cache, fix, provider) ==
    IF fix.language \in DOMAIN cache
    THEN [cache EXCEPT ![fix.language].count = @ + 1]
    ELSE cache @@ (fix.language :> [count |-> 1, provider |-> provider])

\* registerFixes(context, fixes), from the k-th fix on
RECURSIVE registerFixes(_, _, _, _)
registerFixes(cache, fixArray, provider, k) ==
    IF k > Len(fixArray) THEN cache
    ELSE registerFixes(registerFix(cache, fixArray[k], provider), fixArray, provider, k + 1)

\* the loop of the configuration handler of activateFixes over fixes.entries():
\* the iterator moves on by index while the loop body splices the array; st
\* holds the fixes array, the identities of its objects, newFixes,
\* disposableCache and the index; deregisterFix throws a TypeError for a
\* language disposableCache does not hold, which ends the handler
RECURSIVE SyncFixes(_)

\* the loop body for the fix at index i, found in newFixes at index j
SyncStep(st, j) ==
    IF j = -1
    THEN IF st.fixes[st.i + 1].language \notin DOMAIN st.cache
         THEN [st EXCEPT !.threw = TRUE]
         ELSE SyncFixes([st EXCEPT !.cache = deregisterFix(st.cache, st.fixes[st.i + 1]),
                                   !.fixes = RemoveAt(st.fixes, st.i),
                                   !.objs = RemoveAt(st.objs, st.i),
                                   !.i = st.i + 1])
    ELSE SyncFixes([st EXCEPT !.fixes[st.i + 1] = st.newFixes[j + 1],
                              !.newFixes = RemoveAt(st.newFixes, j),
                              !.i = st.i + 1])

SyncFixes(st) ==
    IF st.threw \/ st.i >= Len(st.fixes) THEN st
    ELSE SyncStep(st, FindIndexByRuleId(st.newFixes, st.fixes[st.i + 1].ruleId, 0))

\* the identities of the objects in the fixes array and in the arrays of the
\* providers
UsedObjs(objs, cache) ==
    {objs[i] : i \in 1..Len(objs)}
        \cup UNION { {cache[l].provider.array[i].obj : i \in 1..Len(cache[l].provider.array)} :
                       l \in DOMAIN cache }

LeastFree(used) ==
    CHOOSE o \in 0..Cardinality(used) : o \notin used /\ \A p \in 0..(o - 1) : p \in used

\* the identities of n new objects
RECURSIVE FreshObjs(_, _)

FreshFrom(used, n, o) == <<o>> \o FreshObjs(used \cup {o}, n - 1)

FreshObjs(used, n) == IF n = 0 THEN <<>> ELSE FreshFrom(used, n, LeastFree(used))

\* the array newFixes as the providers registered for it hold it
NewFixesArray(newFixes, newObjs) ==
    [alias |-> FALSE,
     array |-> [k \in 1..Len(newFixes) |-> [obj |-> newObjs[k], fix |-> newFixes[k]]]]

\* fixes.push(...newFixes) and registerFixes(context, newFixes)
PushRegistered(st, newObjs) ==
    [fixes |-> st.fixes \o st.newFixes,
     objs |-> st.objs \o newObjs,
     cache |-> registerFixes(st.cache, st.newFixes, NewFixesArray(st.newFixes, newObjs), 1)]

\* the end of the configuration handler of activateFixes
PushNewFixes(st) ==
    IF st.threw THEN [fixes |-> st.fixes, objs |-> st.objs, cache |-> st.cache]
    ELSE PushRegistered(st, FreshObjs(UsedObjs(st.objs, st.cache), Len(st.newFixes)))

\* an object a provider holds, with the properties Object.assign gave it
RefreshEntry(e, fixes, objs) ==
    IF \E k \in 1..Len(objs) : objs[k] = e.obj
    THEN [e EXCEPT !.fix = fixes[CHOOSE k \in 1..Len(objs) : objs[k] = e.obj]]
    ELSE e

\* the arrays of the providers hold the objects of the fixes array
RefreshProviders(u) ==
    [u EXCEPT !.cache =
        [l \in DOMAIN u.cache |->
            [count |-> u.cache[l].count,
             provider |->
                 [alias |-> u.cache[l].provider.alias,
                  array |-> [i \in 1..Len(u.cache[l].provider.array) |->
                                RefreshEntry(u.cache[l].provider.array[i], u.fixes, u.objs)]]]]]

\* the members of a set in a sequence
RECURSIVE SetSeq(_)
SetSeq(S) ==
    IF S = {} THEN <<>>
    ELSE <<CHOOSE x \in S : TRUE>> \o SetSeq(S \ {CHOOSE x \in S : TRUE})

\* the identities of the objects the providers of the languages hold
RECURSIVE ProviderObjs(_, _)
ProviderObjs(cache, languages) ==
    IF languages = <<>> THEN <<>>
    ELSE [i \in 1..Len(cache[Head(languages)].provider.array) |->
             cache[Head(languages)].provider.array[i].obj]
             \o ProviderObjs(cache, Tail(languages))

\* the number of objects that come before the object o in the sequence all
ObjRank(all, o) ==
    Cardinality({all[j] : j \in 1..((CHOOSE k \in 1..Len(all) :
                                        all[k] = o /\ \A h \in 1..(k - 1) : all[h] # o) - 1)})

\* the objects named by their rank in all: an identity has no other meaning
\* than to tell two objects apart
ObjsRanked(u, all) ==
    [fixes |-> u.fixes,
     objs |-> [i \in 1..Len(u.objs) |-> ObjRank(all, u.objs[i])],
     cache |->
        [l \in DOMAIN u.cache |->
            [count |-> u.cache[l].count,
             provider |->
                 [alias |-> u.cache[l].provider.alias,
                  array |-> [i \in 1..Len(u.cache[l].provider.array) |->
                                [obj |-> ObjRank(all, u.cache[l].provider.array[i].obj),
                                 fix |-> u.cache[l].provider.array[i].fix]]]]]]

ObjsCanonical(u) == ObjsRanked(u, u.objs \o ProviderObjs(u.cache, SetSeq(DOMAIN u.cache)))

\* the fixes array, the identities of its objects and disposableCache after
\* the configuration handler of activateFixes
UpdateFixes(fixes, objs, cache, allRules) ==
    ObjsCanonical(RefreshProviders(PushNewFixes(SyncFixes(
        [fixes |-> fixes, objs |-> objs, newFixes |-> getFixes(allRules), cache |-> cache,
         i |-> 0, threw |-> FALSE]))))

\* the array this.fixes of a provider: the fixes array of activateFixes, or
\* the array newFixes of a configuration change
ProviderFixes(provider, fixes) ==
    IF provider.alias THEN fixes
    ELSE [i \in 1..Len(provider.array) |-> provider.array[i].fix]

(***************************************************************************)
(* Fixes (fixes.ts): the range based fix engine keyed by rule id           *)
(***************************************************************************)

\* getFixes as a map: fixes[ruleId], the fix of the last rule with that id
RECURSIVE FixMapLookup(_, _)

\* the fix of a rule, or the lookup among the rules before it
FixMapEntry(allRules, ruleId, rule) ==
    IF rule.fix # Undefined /\ rule.id = ruleId
    THEN Some([language |-> rule.language, regex |-> rule.regex, ruleId |-> rule.id,
               string |-> rule.fix.v, type |-> rule.fixType])
    ELSE FixMapLookup(SubSeq(allRules, 1, Len(allRules) - 1), ruleId)

FixMapLookup(allRules, ruleId) ==
    IF allRules = <<>> THEN Undefined
    ELSE FixMapEntry(allRules, ruleId, allRules[Len(allRules)])

\* applyReplaceFix(document, fixRanges, fix): one edit per range
applyReplaceFixDoc(text, fixRanges, fix) ==
    [i \in 1..Len(fixRanges) |->
        [range |-> fixRanges[i],
         newText |-> Replace(GetText(text, fixRanges[i]), fix.regex, fix.string)]]

\* the range based reorder fix with the directions exchanged
ReorderDocComparatorSwapped(type) == IF type = "reorder_asc" THEN "tgt" ELSE "tlt"

\* the comparator of the range based reorder fix
ReorderDocComparator(type) == IF type = "reorder_asc" THEN "tlt" ELSE "tgt"

\* the loop of applyReorderFix(document, fixRanges, fix) from range i on
RECURSIVE ReorderDocSorter(_, _, _, _, _)

\* the tuple of range i spliced into sorter at its insertion index
ReorderDocInsert(fix, sorter, tuple) ==
    SpliceIn(sorter, sortedIndex(sorter, tuple, ReorderDocComparator(fix.type)), tuple)

ReorderDocSorter(text, fixRanges, fix, i, sorter) ==
    IF i >= Len(fixRanges) THEN sorter
    ELSE ReorderDocSorter(text, fixRanges, fix, i + 1,
             ReorderDocInsert(fix, sorter,
                 <<i, Replace(GetText(text, fixRanges[i + 1]), fix.regex, fix.string)>>))

\* applyReorderFix(document, fixRanges, fix): span i receives the text of span j
ReorderDocEdits(text, fixRanges, sorter) ==
    [i \in 1..Len(sorter) |->
        [range |-> fixRanges[i], newText |-> GetText(text, fixRanges[sorter[i][1] + 1])]]

applyReorderFixDoc(text, fixRanges, fix) ==
    ReorderDocEdits(text, fixRanges, ReorderDocSorter(text, fixRanges, fix, 0, <<>>))

\* the ranges of a diagnostic: the primary range, then the related ranges
RangesOf(range, info) == <<range>> \o [k \in 1..Len(info) |-> info[k].location.range]

DiagnosticRanges(diagnostic) ==
    RangesOf(diagnostic.range, Nullish(diagnostic.relatedInformation, Some(<<>>)).v)

\* the body of applyFixes of the rule keyed engine for one diagnostic
FixByType(text, ranges, fix) ==
    IF fix = Undefined THEN <<>>
    ELSE IF fix.v.type = "replace" THEN applyReplaceFixDoc(text, ranges, fix.v)
    ELSE IF fix.v.type \in {"reorder_asc", "reorder_desc"}
    THEN applyReorderFixDoc(text, ranges, fix.v)
    ELSE <<>>

applyFixesByRuleOne(text, diagnostic, allRules) ==
    FixByType(text, DiagnosticRanges(diagnostic), FixMapLookup(allRules, diagnostic.ruleId))

\* the edits of applyFixes of the rule keyed engine, one list per diagnostic
applyFixesByRule(text, diagnostics, allRules) ==
    [i \in 1..Len(diagnostics) |-> applyFixesByRuleOne(text, diagnostics[i], allRules)]

RECURSIVE Flatten(_)
Flatten(lists) == IF lists = <<>> THEN <<>> ELSE Head(lists) \o Flatten(Tail(lists))

(***************************************************************************)
(* The quick fix engine (quickfixes.ts): the fixes of a language are keyed *)
(* by rule id, and the diagnostics it is paired with carry the rule id as  *)
(* their code.  The replace loop tests the fixed text with matcher, its    *)
(* own copy of the rule's regex, which keeps lastIndex between the tests.  *)
(***************************************************************************)

MaxFixIterations == 64

\* fixes[id] of the provider of a language: the fix of the last rule of the
\* language with that id
RECURSIVE QuickFixLookup(_, _, _)

QuickFixEntry(allRules, language, id, rule) ==
    IF rule.fix # Undefined /\ rule.language = language /\ rule.id = id
    THEN Some([regex |-> rule.regex, ruleId |-> rule.id, type |-> rule.fixType,
               quickFix |-> rule.fix.v])
    ELSE QuickFixLookup(SubSeq(allRules, 1, Len(allRules) - 1), language, id)

QuickFixLookup(allRules, language, id) ==
    IF allRules = <<>> THEN Undefined
    ELSE QuickFixEntry(allRules, language, id, allRules[Len(allRules)])

\* the break condition after the substitution: array is the result of
\* matcher.test(fixText) from lastIndex; tests are the cursors the calls of
\* matcher.test started from
QuickLoopTest(fix, fixText, fixIter, lastIndex, tests, array) ==
    [fixText |-> fixText,
     fixIter |-> IF array.found THEN fixIter + 1 ELSE fixIter,
     lastIndex |-> IF array.found THEN array.end ELSE 0,
     tests |-> Append(tests, lastIndex),
     done |-> ~array.found \/ fixIter + 1 > MaxFixIterations]

\* the loop body once fixText holds the substituted text
QuickLoopBody(fix, fixText, fixIter, lastIndex, tests) ==
    QuickLoopTest(fix, fixText, fixIter, lastIndex, tests, Exec(fix.regex, fixText, lastIndex))

\* one pass of the while (true) loop from the loop state s
QuickLoopPass(fix, s) ==
    IF s.done THEN s
    ELSE QuickLoopBody(fix, Replace(s.fixText, fix.regex, fix.quickFix), s.fixIter,
                       s.lastIndex, s.tests)

\* n passes from the loop state s, the first half before the second
RECURSIVE QuickLoopPasses(_, _, _)
QuickLoopPasses(fix, s, n) ==
    IF n = 0 THEN s
    ELSE IF n = 1 THEN QuickLoopPass(fix, s)
    ELSE CHOOSE r \in { QuickLoopPasses(fix, half, n - (n \div 2)) :
                            half \in {QuickLoopPasses(fix, s, n \div 2)} } :
             TRUE

\* the result of the loop: the text and the cursors of the tests
QuickLoopResult(s) == [fixText |-> s.fixText, tests |-> s.tests]

\* the while (true) loop of applyQuickFixes; lastIndex is the cursor of
\* matcher; the break is taken after MaxFixIterations + 1 passes at the latest
QuickLoop(fix, fixText, fixIter, lastIndex, tests) ==
    QuickLoopResult(QuickLoopPasses(fix,
        [fixText |-> fixText, fixIter |-> fixIter, lastIndex |-> lastIndex,
         tests |-> tests, done |-> FALSE],
        MaxFixIterations + 1))

\* the first loop of applyQuickFixes for one diagnostic: Undefined when it
\* has no fix or a reorder fix
QuickReplaceRun(text, diagnostic, fix) ==
    IF fix = Undefined \/ fix.v.type # "replace" THEN Undefined
    ELSE Some([range |-> diagnostic.range,
               run |-> QuickLoop(fix.v, GetText(text, diagnostic.range), 0,
                                 RegExpObject(fix.v.regex).lastIndex, <<>>)])

QuickReplaceRuns(text, diagnostics, allRules, language) ==
    [i \in 1..Len(diagnostics) |->
        QuickReplaceRun(text, diagnostics[i],
            QuickFixLookup(allRules, language, diagnostics[i].ruleId))]

\* the edits of the first loop
RECURSIVE QuickReplaceEdits(_)
QuickReplaceEdits(runs) ==
    IF runs = <<>> THEN <<>>
    ELSE (IF Head(runs) # Undefined
          THEN <<[range |-> Head(runs).v.range, newText |-> Head(runs).v.run.fixText]>>
          ELSE <<>>) \o QuickReplaceEdits(Tail(runs))

\* the second loop of applyQuickFixes for one diagnostic: the spans of a
\* reorder diagnostic sorted by token
QuickReorderRun(text, diagnostic, fix) ==
    IF fix = Undefined \/ fix.v.type = "replace" THEN <<>>
    ELSE applyReorderFixDoc(text, DiagnosticRanges(diagnostic),
             [regex |-> fix.v.regex, string |-> fix.v.quickFix, type |-> fix.v.type])

QuickReorderEdits(text, diagnostics, allRules, language) ==
    Flatten([i \in 1..Len(diagnostics) |->
        QuickReorderRun(text, diagnostics[i],
            QuickFixLookup(allRules, language, diagnostics[i].ruleId))])

\* applyQuickFixes(document, diagnostics, fixes)
applyQuickFixes(text, diagnostics, allRules, language) ==
    QuickReplaceEdits(QuickReplaceRuns(text, diagnostics, allRules, language))
        \o QuickReorderEdits(text, diagnostics, allRules, language)

(***************************************************************************)
(* The host: applying a list of text edits to the document                 *)
(***************************************************************************)

\* two edits whose ranges share a character; the host refuses such a list
EditsOverlap(text, e, f) ==
    /\ Max2(OffsetAt(text, e.range.start), OffsetAt(text, f.range.start))
           < Min2(OffsetAt(text, e.range.end), OffsetAt(text, f.range.end))

EditsApplicable(text, edits) ==
    \A i, j \in 1..Len(edits) : i # j => ~EditsOverlap(text, edits[i], edits[j])

\* index of the edit that starts last (the last of the list among equals)
LastEdit(text, edits) ==
    CHOOSE i \in 1..Len(edits) :
        \A j \in 1..Len(edits) :
            \/ OffsetAt(text, edits[j].range.start) < OffsetAt(text, edits[i].range.start)
            \/ (OffsetAt(text, edits[j].range.start) = OffsetAt(text, edits[i].range.start)
                   /\ j <= i)

\* the text after all edits, each applied at its offsets in the original text
RECURSIVE ApplyTextEdits(_, _)

\* edit i applied to the text, the other edits applied to the text before it
ApplyEditAt(text, edits, i) ==
    ApplyTextEdits(Substring(text, 0, OffsetAt(text, edits[i].range.start)),
                   RemoveAt(edits, i - 1))
        \o edits[i].newText
        \o Substring(text, OffsetAt(text, edits[i].range.end), Len(text))

ApplyTextEdits(text, edits) ==
    IF edits = <<>> THEN text
    ELSE ApplyEditAt(text, edits, LastEdit(text, edits))

(***************************************************************************)
(* The extension as a state machine                                        *)
(***************************************************************************)

VARIABLES
    configuration,   \* the 'relint' section of the workspace configuration
    rules,           \* Rule.rules: the contents of the array it points to
    rulesObj,        \* identity of that array object; a new array flips it
    threw,           \* the last call of getRules raised out of its caller
    loaded,          \* the configuration of the last getRules call that returned
    pending,         \* listeners of the configuration event still to run, in order
    text,            \* text of the active editor's document
    languageId,      \* document.languageId
    published,       \* the diagnostic collection's list for the document
    fixes,           \* the fixes array of activateFixes
    fixRuns,         \* loop outcomes of the last applyFixes call, per diagnostic
    edits,           \* the edit list of the last code action
    applied,         \* how the text came to be: "edited", or by applying a fix-all
                     \* whose loops all reached a "fixpoint" or hit the cap ("capped")
    lastOp,          \* the handler that ran last
    search,          \* the binary search of sortedIndex in the order check of a scan
    call,            \* the last call of the text based applyReorderFix and its result
    background,      \* the document of the other editor: text, languageId, published list
    fixObjs,         \* identities of the fix objects in the fixes array
    disposableCache  \* disposableCache: per language the count and the array its providers hold

vars ==
    <<configuration, rules, rulesObj, threw, loaded, pending, text, languageId,
      published, fixes, fixRuns, edits, applied, lastOp, search, call, background, fixObjs, disposableCache>>

\* Rule.all
RuleAll == rules

\* one entry of the 'rules' setting
Entry(pattern, fix, fixType, name, language, maxLines) ==
    [fix |-> fix, fixType |-> fixType, language |-> language, maxLines |-> maxLines,
     message |-> Some("m"), name |-> name, pattern |-> pattern, severity |-> Undefined]

Config(ruleConfigs) == [rules |-> Some(ruleConfigs), language |-> Undefined]

\* "ab" -> "b", group g1
EntryShrink == Entry(Some(<<97, 98>>), Some(<<98>>), Undefined, Some("g1"), Undefined, Undefined)

\* "b" without a fix, group g1
EntryPlain == Entry(Some(<<98>>), Undefined, Undefined, Some("g1"), Undefined, Undefined)

\* "a" -> "$&", group g2: the fix output matches again
EntryLoop == Entry(Some(<<97>>), Some(<<36, 38>>), Undefined, Some("g2"), Undefined, Undefined)

\* "[ab]" -> "a", group g2: the fix output matches again
EntryFold ==
    Entry(Some(<<91, 97, 98, 93>>), Some(<<97>>), Some("replace"), Some("g2"), Undefined,
          Undefined)

\* "[ab]" in ascending order, group g3
EntryAsc ==
    Entry(Some(<<91, 97, 98, 93>>), Undefined, Some("reorder_asc"), Some("g3"),
          Undefined, Undefined)

\* "[ab]" in descending order, group g3
EntryDesc ==
    Entry(Some(<<91, 97, 98, 93>>), Undefined, Some("reorder_desc"), Some("g3"),
          Undefined, Undefined)

\* "[ab]+" in ascending order, group g5
EntryAscWords ==
    Entry(Some(<<91, 97, 98, 93, 43>>), Undefined, Some("reorder_asc"), Some("g5"),
          Undefined, Undefined)

\* "(a)?[ab]" in ascending order of "$1", group g7: the sort token is the
\* optional prefix, so different spans have equal tokens
EntryKeyed ==
    Entry(Some(<<40, 97, 41, 63, 91, 97, 98, 93>>), Some(<<36, 49>>), Some("reorder_asc"),
          Some("g7"), Undefined, Undefined)

\* "bb" -> "b", group g8
EntryDrop == Entry(Some(<<98, 98>>), Some(<<98>>), Undefined, Some("g8"), Undefined, Undefined)

\* "ab" -> "bb", group g8: its output is what EntryDrop matches
EntryDouble ==
    Entry(Some(<<97, 98>>), Some(<<98, 98>>), Undefined, Some("g8"), Undefined, Undefined)

\* "(a+)?[ab]" -> "$1", group g9: the fix strips the last character
EntryPeel ==
    Entry(Some(<<40, 97, 43, 41, 63, 91, 97, 98, 93>>), Some(<<36, 49>>), Undefined,
          Some("g9"), Undefined, Undefined)

\* "a(?=(b+))" without a fix, group g10: the group is outside of the match
EntryAhead ==
    Entry(Some(<<97, 40, 63, 61, 40, 98, 43, 41, 41>>), Undefined, Undefined, Some("g10"),
          Undefined, Undefined)

\* "[ab](?=(b))" in ascending order, group g12: a letter is a match only in
\* front of a "b"
EntryAheadAsc ==
    Entry(Some(<<91, 97, 98, 93, 40, 63, 61, 40, 98, 41, 41>>), Undefined,
          Some("reorder_asc"), Some("g12"), Undefined, Undefined)

\* "[ab](?=(b))" in descending order, group g12
EntryAheadDesc ==
    Entry(Some(<<91, 97, 98, 93, 40, 63, 61, 40, 98, 41, 41>>), Undefined,
          Some("reorder_desc"), Some("g12"), Undefined, Undefined)

\* "a" -> "ba", group g11: the fix output matches again behind the text it adds
EntryGrow == Entry(Some(<<97>>), Some(<<98, 97>>), Undefined, Some("g11"), Undefined, Undefined)

\* "a" with the fix type "0", group g6
EntryNumeric == Entry(Some(<<97>>), Undefined, Some("0"), Some("g6"), Undefined, Undefined)

\* "a\nb" scanned one line at a time, group g4
EntryTwoLines ==
    Entry(Some(<<97, 92, 110, 98>>), Undefined, Undefined, Some("g4"), Undefined, Some(1))

\* "a\nb" scanned over the whole document, group g4
EntryWhole ==
    Entry(Some(<<97, 92, 110, 98>>), Undefined, Undefined, Some("g4"), Undefined, Some(0))

\* "b" -> "" for another language, group g1
EntryNim == Entry(Some(<<98>>), Some(<<>>), Undefined, Some("g1"), Some("nim"), Undefined)

\* "(" does not compile, group g1
EntryBroken == Entry(Some(<<40>>), Undefined, Undefined, Some("g1"), Undefined, Undefined)

\* the configurations of the engine specification
ScanConfigs ==
    { Config(<<>>), Config(<<EntryShrink>>), Config(<<EntryShrink, EntryPlain>>),
      Config(<<EntryLoop>>), Config(<<EntryFold>>), Config(<<EntryAsc>>),
      Config(<<EntryDesc>>), Config(<<EntryAsc, EntryDesc>>), Config(<<EntryTwoLines>>),
      Config(<<EntryWhole>>), Config(<<EntryNim>>), Config(<<EntryAsc, EntryShrink>>),
      Config(<<EntryAscWords>>), Config(<<EntryKeyed>>),
      Config(<<EntryDrop, EntryDouble>>), Config(<<EntryPeel>>),
      Config(<<EntryShrink, EntryNim>>), Config(<<EntryAhead>>) }

\* the configurations of the quick fix specification
QuickConfigs == ScanConfigs \cup {Config(<<EntryGrow>>)}

\* the configurations of the reorder fix specification
ReorderConfigs ==
    { Config(<<EntryAheadAsc>>), Config(<<EntryAheadDesc>>), Config(<<EntryAscWords>>),
      Config(<<EntryDesc>>) }

\* longest text handed to applyReorderFix
ReorderLen == 5

\* code units of the document texts: line feed, a, b
Alphabet == {10, 97, 98}

\* longest document text
MaxLen == 4

\* the listeners of onDidChangeConfiguration in the order activate registers them
Listeners == <<"monitorRules", "activateFixes", "activateDiagnostics">>

\* the batch written into the array Rule.rules already points to
AssignRulesInPlace(oldRules, oldObj, newRules) == [rules |-> newRules, obj |-> oldObj]

\* this.rules = this.getRules(): Rule.rules points to a new array object
AssignRules(oldRules, oldObj, newRules) == [rules |-> newRules, obj |-> 1 - oldObj]

\* the sort tokens of the order check specification: "", "a", "b"
Tokens == {<<>>, <<97>>, <<98>>}

\* no scan of a reorder rule is under way
SearchIdle ==
    [pc |-> "idle", fixType |-> "reorder_asc", sorter |-> <<>>, item |-> <<>>,
     lo |-> 0, hi |-> 0]

\* a second document, of language nim, that no handler has seen yet
BackgroundNew == [text |-> <<>>, languageId |-> "nim", published |-> <<>>]

\* the configurations of the editor specification
EditorConfigs ==
    { Config(<<EntryShrink, EntryPlain>>), Config(<<EntryNim>>),
      Config(<<EntryPlain, EntryBroken>>) }

\* "b" -> "", group g1
EntryErase == Entry(Some(<<98>>), Some(<<>>), Undefined, Some("g1"), Undefined, Undefined)

\* the configurations of the provider specification
ProviderConfigs ==
    { Config(<<>>), Config(<<EntryShrink>>), Config(<<EntryNim>>), Config(<<EntryErase>>),
      Config(<<EntryShrink, EntryErase>>), Config(<<EntryShrink, EntryNim>>) }

\* the configurations of the provider edit specification
ProviderEditConfigs ==
    { Config(<<>>), Config(<<EntryShrink>>), Config(<<EntryShrink, EntryErase>>) }

\* applyReorderFix of the text based engine has not been called
CallNone == [text |-> <<>>, type |-> "replace", result |-> Undefined]

\* the state after activate() for a configuration that compiles
Activated(cfg, lang) ==
    /\ configuration = cfg
    /\ rules = getRules(cfg).rules
    /\ rulesObj = 1
    /\ threw = FALSE
    /\ loaded = cfg
    /\ pending = <<>>
    /\ text = <<>>
    /\ languageId = lang
    /\ published = refreshDiagnostics(<<>>, lang, rules, <<>>)
    /\ fixes = getFixes(rules)
    /\ fixRuns = <<>>
    /\ edits = <<>>
    /\ applied = "edited"
    /\ lastOp = "activate"
    /\ disposableCache = registerFixes(<<>>, fixes, [alias |-> TRUE, array |-> <<>>], 1)
    /\ fixObjs = [i \in 1..Len(fixes) |-> i - 1]
    /\ background = BackgroundNew
    /\ call = CallNone
    /\ search = SearchIdle

\* the configurations of the event specification; the last one has a pattern
\* that does not compile
EventConfigs ==
    { Config(<<>>), Config(<<EntryShrink, EntryPlain>>), Config(<<EntryNim>>),
      Config(<<EntryAsc>>), Config(<<EntryPlain, EntryBroken>>), Config(<<EntryNumeric>>) }

\* the severity, the language and the global language of the configurations
\* of the compilation specification
CompileVariants ==
    { <<Undefined, Undefined, Undefined>>, <<Undefined, Undefined, Some("c")>>,
      <<Some("Error"), Some("nim"), Some("c")>>, <<Some("Hint"), Some("nim"), Undefined>> }

\* the configurations of the compilation specification: one rule for "a" with
\* every choice of a set or unset fix type, fix and maxLines
CompileConfigs ==
    { [rules |-> Some(<<[Entry(Some(<<97>>), fix, fixType, Some("g1"), variant[2], maxLines)
                            EXCEPT !.severity = variant[1]]>>),
       language |-> variant[3]] :
          fix \in {Undefined, Some(<<>>), Some(<<98>>)},
          fixType \in {Undefined, Some("replace"), Some("reorder_desc")},
          maxLines \in {Undefined, Some(0), Some(2)},
          variant \in CompileVariants }

Init == \E cfg \in EventConfigs : ~getRules(cfg).threw /\ Activated(cfg, "plaintext")

\* the engine on one configuration
InitEngine == \E cfg \in ScanConfigs : Activated(cfg, "plaintext")

\* the host changes the configuration and fires onDidChangeConfiguration
ConfigChangeTo(cfg) ==
    /\ pending = <<>>
    /\ cfg # configuration
    /\ configuration' = cfg
    /\ pending' = Listeners
    /\ fixRuns' = <<>>
    /\ edits' = <<>>
    /\ applied' = "edited"
    /\ lastOp' = "configure"
    /\ UNCHANGED <<rules, rulesObj, threw, loaded, text, languageId, published, fixes>>
    /\ UNCHANGED search
    /\ UNCHANGED call
    /\ UNCHANGED background
    /\ UNCHANGED fixObjs
    /\ UNCHANGED disposableCache

\* the listener of Rule.monitorRules
MonitorRules ==
    /\ pending # <<>> /\ Head(pending) = "monitorRules"
    /\ threw' = getRules(configuration).threw
    /\ IF threw'
       THEN UNCHANGED <<rules, rulesObj, loaded>>
       ELSE /\ rules' = AssignRules(rules, rulesObj, getRules(configuration).rules).rules
            /\ rulesObj' = AssignRules(rules, rulesObj, rules').obj
            /\ loaded' = configuration
    /\ pending' = Tail(pending)
    /\ lastOp' = "monitorRules"
    /\ UNCHANGED <<configuration, text, languageId, published, fixes, fixRuns, edits, applied>>
    /\ UNCHANGED search
    /\ UNCHANGED call
    /\ UNCHANGED background
    /\ UNCHANGED fixObjs
    /\ UNCHANGED disposableCache

\* the listener of activateFixes
FixesListener ==
    /\ pending # <<>> /\ Head(pending) = "activateFixes"
    /\ \E u \in {UpdateFixes(fixes, fixObjs, disposableCache, RuleAll)} :
          /\ fixes' = u.fixes
          /\ fixObjs' = u.objs
          /\ disposableCache' = u.cache
    /\ pending' = Tail(pending)
    /\ lastOp' = "activateFixes"
    /\ UNCHANGED <<configuration, rules, rulesObj, threw, loaded, text, languageId,
                   published, fixRuns, edits, applied>>
    /\ UNCHANGED search
    /\ UNCHANGED call
    /\ UNCHANGED background

\* the listener of activateDiagnostics
DiagnosticsListener ==
    /\ pending # <<>> /\ Head(pending) = "activateDiagnostics"
    /\ published' = refreshDiagnostics(text, languageId, RuleAll, published)
    /\ pending' = Tail(pending)
    /\ lastOp' = "activateDiagnostics"
    /\ UNCHANGED <<configuration, rules, rulesObj, threw, loaded, text, languageId,
                   fixes, fixRuns, edits, applied>>
    /\ UNCHANGED search
    /\ UNCHANGED call
    /\ UNCHANGED background
    /\ UNCHANGED fixObjs
    /\ UNCHANGED disposableCache

\* the user types a character at the end of the document or deletes the last
\* one; the listener of onDidChangeTextDocument refreshes the diagnostics
TextChange ==
    /\ pending = <<>>
    /\ \E t \in { Append(text, c) : c \in IF Len(text) < MaxLen THEN Alphabet ELSE {} }
                 \cup (IF text = <<>> THEN {} ELSE {SubSeq(text, 1, Len(text) - 1)}) :
          text' = t
    /\ published' = refreshDiagnostics(text', languageId, RuleAll, published)
    /\ fixRuns' = <<>>
    /\ edits' = <<>>
    /\ applied' = "edited"
    /\ lastOp' = "textChange"
    /\ UNCHANGED <<configuration, rules, rulesObj, threw, loaded, pending, languageId,
                   fixes>>
    /\ UNCHANGED search
    /\ UNCHANGED call
    /\ UNCHANGED background
    /\ UNCHANGED fixObjs
    /\ UNCHANGED disposableCache

\* the diagnostics of the document that come from this extension
OwnDiagnostics(list) == SelectSeq(list, LAMBDA d : d.source = DiagnosticCollectionName)

\* FixAllProvider.provideCodeActions of the provider registered for the
\* language of the document
FixAll ==
    /\ pending = <<>>
    /\ languageId \in DOMAIN disposableCache
    /\ fixRuns' = FixRuns(text, OwnDiagnostics(published),
                          ProviderFixes(disposableCache[languageId].provider, fixes))
    /\ edits' = applyFixes(text, OwnDiagnostics(published),
                           ProviderFixes(disposableCache[languageId].provider, fixes))
    /\ lastOp' = "fixAll"
    /\ UNCHANGED <<configuration, rules, rulesObj, threw, loaded, pending, text,
                   languageId, published, fixes, applied>>
    /\ UNCHANGED search
    /\ UNCHANGED call
    /\ UNCHANGED background
    /\ UNCHANGED fixObjs
    /\ UNCHANGED disposableCache

\* the host applies the edits of the code action; the document changes and the
\* listener of onDidChangeTextDocument refreshes the diagnostics
ApplyEdits ==
    /\ pending = <<>>
    /\ lastOp = "fixAll"
    /\ edits # <<>>
    /\ EditsApplicable(text, edits)
    /\ text' = ApplyTextEdits(text, edits)
    /\ Len(text') <= MaxLen
    /\ published' = refreshDiagnostics(text', languageId, RuleAll, published)
    /\ applied' = IF \E i \in 1..Len(fixRuns) : fixRuns[i].capped
                  THEN "capped" ELSE "fixpoint"
    /\ fixRuns' = <<>>
    /\ edits' = <<>>
    /\ lastOp' = "applyEdits"
    /\ UNCHANGED <<configuration, rules, rulesObj, threw, loaded, pending, languageId,
                   fixes>>
    /\ UNCHANGED search
    /\ UNCHANGED call
    /\ UNCHANGED background
    /\ UNCHANGED fixObjs
    /\ UNCHANGED disposableCache

\* FixAllProvider.provideCodeActions of the rule keyed engine
FixAllByRule ==
    /\ pending = <<>>
    /\ \E i \in 1..Len(RuleAll) :
          RuleAll[i].fix # Undefined /\ RuleAll[i].language = languageId
    /\ fixRuns' = applyFixesByRule(text, OwnDiagnostics(published), RuleAll)
    /\ edits' = Flatten(applyFixesByRule(text, OwnDiagnostics(published), RuleAll))
    /\ lastOp' = "fixAllByRule"
    /\ UNCHANGED <<configuration, rules, rulesObj, threw, loaded, pending, text,
                   languageId, published, fixes, applied>>
    /\ UNCHANGED search
    /\ UNCHANGED call
    /\ UNCHANGED background
    /\ UNCHANGED fixObjs
    /\ UNCHANGED disposableCache

\* the scan of a reorder rule begins: const sorter = []
ScanBegin ==
    /\ search.pc \in {"idle", "scan"}
    /\ \E fixType \in {"reorder_asc", "reorder_desc"} :
          search' = [SearchIdle EXCEPT !.pc = "scan", !.fixType = fixType]
    /\ lastOp' = "scanBegin"
    /\ UNCHANGED <<configuration, rules, rulesObj, threw, loaded, pending, text,
                   languageId, published, fixes, fixRuns, edits, applied>>
    /\ UNCHANGED call
    /\ UNCHANGED background
    /\ UNCHANGED fixObjs
    /\ UNCHANGED disposableCache

\* the order check calls sortedIndex(sorter, token, comparator): lo = 0 and
\* hi = sortedArray.length
SortedIndexCall ==
    /\ search.pc = "scan"
    /\ Len(search.sorter) < MaxLen
    /\ \E token \in Tokens :
          search' = [search EXCEPT !.pc = "loop", !.item = token, !.lo = 0,
                                   !.hi = Len(search.sorter)]
    /\ lastOp' = "sortedIndexCall"
    /\ UNCHANGED <<configuration, rules, rulesObj, threw, loaded, pending, text,
                   languageId, published, fixes, fixRuns, edits, applied>>
    /\ UNCHANGED call
    /\ UNCHANGED background
    /\ UNCHANGED fixObjs
    /\ UNCHANGED disposableCache

\* one iteration of the while loop of sortedIndex
SortedIndexIterate ==
    /\ search.pc = "loop"
    /\ search.lo < search.hi
    /\ search' =
          [search EXCEPT
              !.lo = sortedIndexStep(search.sorter, search.item,
                                     OrderComparator(search.fixType), search.lo, search.hi).lo,
              !.hi = sortedIndexStep(search.sorter, search.item,
                                     OrderComparator(search.fixType), search.lo, search.hi).hi]
    /\ lastOp' = "sortedIndexIterate"
    /\ UNCHANGED <<configuration, rules, rulesObj, threw, loaded, pending, text,
                   languageId, published, fixes, fixRuns, edits, applied>>
    /\ UNCHANGED call
    /\ UNCHANGED background
    /\ UNCHANGED fixObjs
    /\ UNCHANGED disposableCache

\* the loop condition fails: return lo
SortedIndexReturn ==
    /\ search.pc = "loop"
    /\ ~(search.lo < search.hi)
    /\ search' = [search EXCEPT !.pc = "returned"]
    /\ lastOp' = "sortedIndexReturn"
    /\ UNCHANGED <<configuration, rules, rulesObj, threw, loaded, pending, text,
                   languageId, published, fixes, fixRuns, edits, applied>>
    /\ UNCHANGED call
    /\ UNCHANGED background
    /\ UNCHANGED fixObjs
    /\ UNCHANGED disposableCache

\* sorter.splice(index, 0, token) with the index sortedIndex returned
SorterSplice ==
    /\ search.pc = "returned"
    /\ search' = [search EXCEPT !.pc = "scan",
                                !.sorter = SpliceIn(search.sorter, search.lo, search.item)]
    /\ lastOp' = "sorterSplice"
    /\ UNCHANGED <<configuration, rules, rulesObj, threw, loaded, pending, text,
                   languageId, published, fixes, fixRuns, edits, applied>>
    /\ UNCHANGED call
    /\ UNCHANGED background
    /\ UNCHANGED fixObjs
    /\ UNCHANGED disposableCache

\* QuickFixAllProvider.provideCodeActions of the quick fix engine
QuickFixAll ==
    /\ pending = <<>>
    /\ \E i \in 1..Len(RuleAll) :
          RuleAll[i].fix # Undefined /\ RuleAll[i].language = languageId
    /\ fixRuns' = QuickReplaceRuns(text, OwnDiagnostics(published), RuleAll, languageId)
    /\ edits' = applyQuickFixes(text, OwnDiagnostics(published), RuleAll, languageId)
    /\ lastOp' = "quickFixAll"
    /\ UNCHANGED <<configuration, rules, rulesObj, threw, loaded, pending, text,
                   languageId, published, fixes, applied>>
    /\ UNCHANGED search
    /\ UNCHANGED call
    /\ UNCHANGED background
    /\ UNCHANGED fixObjs
    /\ UNCHANGED disposableCache

\* an editor change whose listener does nothing
EditorRefreshSkipped(doc) == doc.published

\* the listener of onDidChangeActiveTextEditor for the editor of doc
EditorRefresh(doc) == refreshDiagnostics(doc.text, doc.languageId, RuleAll, doc.published)

\* the user switches to the other editor; the listener of
\* onDidChangeActiveTextEditor refreshes the diagnostics of its document
EditorChange ==
    /\ pending = <<>>
    /\ text' = background.text
    /\ languageId' = background.languageId
    /\ published' = EditorRefresh(background)
    /\ background' = [text |-> text, languageId |-> languageId, published |-> published]
    /\ fixRuns' = <<>>
    /\ edits' = <<>>
    /\ applied' = "edited"
    /\ lastOp' = "editorChange"
    /\ UNCHANGED <<configuration, rules, rulesObj, threw, loaded, pending, fixes, search,
                   call>>
    /\ UNCHANGED fixObjs
    /\ UNCHANGED disposableCache

\* the texts a character typed or deleted at the end of t leads to, the two
\* documents together holding MaxLen characters at most
Typed(t, others) ==
    { Append(t, c) : c \in IF Len(t) + Len(others) < MaxLen THEN Alphabet ELSE {} }
        \cup (IF t = <<>> THEN {} ELSE {SubSeq(t, 1, Len(t) - 1)})

\* a change of the active editor's document; the listener of
\* onDidChangeTextDocument refreshes the diagnostics of event.document
ActiveDocumentChange ==
    /\ pending = <<>>
    /\ \E t \in Typed(text, background.text) : text' = t
    /\ published' = refreshDiagnostics(text', languageId, RuleAll, published)
    /\ fixRuns' = <<>>
    /\ edits' = <<>>
    /\ applied' = "edited"
    /\ lastOp' = "textChange"
    /\ UNCHANGED <<configuration, rules, rulesObj, threw, loaded, pending, languageId,
                   fixes, search, call, background>>
    /\ UNCHANGED fixObjs
    /\ UNCHANGED disposableCache

\* a change of the document of the other editor; the same listener refreshes
\* event.document
BackgroundDocumentChange ==
    /\ pending = <<>>
    /\ \E t \in Typed(background.text, text) :
          background' = [background EXCEPT
              !.text = t,
              !.published = refreshDiagnostics(t, background.languageId, RuleAll,
                                               background.published)]
    /\ lastOp' = "backgroundChange"
    /\ UNCHANGED <<configuration, rules, rulesObj, threw, loaded, pending, text,
                   languageId, published, fixes, fixRuns, edits, applied, search, call>>
    /\ UNCHANGED fixObjs
    /\ UNCHANGED disposableCache

\* the user types or deletes a character in a document of up to ReorderLen
\* characters; the result of an earlier applyReorderFix call is gone
ReorderTextChange ==
    /\ pending = <<>>
    /\ \E t \in { Append(text, c) : c \in IF Len(text) < ReorderLen THEN Alphabet ELSE {} }
                 \cup (IF text = <<>> THEN {} ELSE {SubSeq(text, 1, Len(text) - 1)}) :
          text' = t
    /\ published' = refreshDiagnostics(text', languageId, RuleAll, published)
    /\ call' = CallNone
    /\ lastOp' = "textChange"
    /\ UNCHANGED <<configuration, rules, rulesObj, threw, loaded, pending, languageId,
                   fixes, fixRuns, edits, applied, search>>
    /\ UNCHANGED background
    /\ UNCHANGED fixObjs
    /\ UNCHANGED disposableCache

\* applySingleFix calls applyReorderFix(textToBeFixed, fix) for a reorder fix
\* on the text of the document
ReorderFixCall ==
    /\ pending = <<>>
    /\ \E k \in 1..Len(fixes) :
          /\ fixes[k].type \in {"reorder_asc", "reorder_desc"}
          /\ call' = [text |-> text, type |-> fixes[k].type,
                      result |-> applyReorderFix(text, fixes[k])]
    /\ lastOp' = "applyReorderFix"
    /\ UNCHANGED <<configuration, rules, rulesObj, threw, loaded, pending, text,
                   languageId, published, fixes, fixRuns, edits, applied, search>>
    /\ UNCHANGED background
    /\ UNCHANGED fixObjs
    /\ UNCHANGED disposableCache

Next ==
    \/ \E cfg \in EventConfigs : ConfigChangeTo(cfg)
    \/ MonitorRules
    \/ FixesListener
    \/ DiagnosticsListener
    \/ TextChange
    \/ FixAll
    \/ ApplyEdits

Spec == Init /\ [][Next]_vars

NextEngine ==
    \/ TextChange
    \/ FixAll
    \/ ApplyEdits

SpecEngine == InitEngine /\ [][NextEngine]_vars

NextByRule ==
    \/ TextChange
    \/ FixAllByRule

SpecByRule == InitEngine /\ [][NextByRule]_vars

\* the rules compiled from one configuration after another
InitCompile == Activated(Config(<<>>), "plaintext")

NextCompile ==
    \/ \E cfg \in CompileConfigs : ConfigChangeTo(cfg)
    \/ MonitorRules
    \/ FixesListener
    \/ DiagnosticsListener

SpecCompile == InitCompile /\ [][NextCompile]_vars

\* the order check of a scan, one step of sortedIndex at a time; the handler
\* runs on to its end
InitSort == Activated(Config(<<>>), "plaintext")

NextSort ==
    \/ ScanBegin
    \/ SortedIndexCall
    \/ SortedIndexIterate
    \/ SortedIndexReturn
    \/ SorterSplice

SpecSort ==
    /\ InitSort
    /\ [][NextSort]_vars
    /\ WF_vars(SortedIndexIterate)
    /\ WF_vars(SortedIndexReturn)

\* applyReorderFix of the text based engine on the texts of a document
InitReorder == \E cfg \in ReorderConfigs : Activated(cfg, "plaintext")

NextReorder ==
    \/ ReorderTextChange
    \/ ReorderFixCall

SpecReorder == InitReorder /\ [][NextReorder]_vars

\* two editors, their documents and the configuration
InitEditors == \E cfg \in EditorConfigs : ~getRules(cfg).threw /\ Activated(cfg, "plaintext")

NextEditors ==
    \/ \E cfg \in EditorConfigs : ConfigChangeTo(cfg)
    \/ MonitorRules
    \/ FixesListener
    \/ DiagnosticsListener
    \/ EditorChange
    \/ ActiveDocumentChange
    \/ BackgroundDocumentChange

SpecEditors == InitEditors /\ [][NextEditors]_vars

\* the providers of the fixes across configuration changes
InitProviders == \E cfg \in ProviderConfigs : Activated(cfg, "plaintext")

NextProviders ==
    \/ \E cfg \in ProviderConfigs : ConfigChangeTo(cfg)
    \/ MonitorRules
    \/ FixesListener
    \/ DiagnosticsListener

SpecProviders == InitProviders /\ [][NextProviders]_vars

\* the code actions of the providers across configuration changes
InitProviderEdits == \E cfg \in ProviderEditConfigs : Activated(cfg, "plaintext")

NextProviderEdits ==
    \/ \E cfg \in ProviderEditConfigs : ConfigChangeTo(cfg)
    \/ MonitorRules
    \/ FixesListener
    \/ DiagnosticsListener
    \/ TextChange
    \/ FixAll

SpecProviderEdits == InitProviderEdits /\ [][NextProviderEdits]_vars

NextQuick ==
    \/ TextChange
    \/ QuickFixAll

\* the quick fix engine on one configuration
InitQuick == \E cfg \in QuickConfigs : Activated(cfg, "plaintext")

SpecQuick == InitQuick /\ [][NextQuick]_vars

(***************************************************************************)
(* Properties                                                              *)
(***************************************************************************)

\* the rules that share a group name
GroupRules(name) == SelectSeq(RuleAll, LAMBDA r : r.name = name)

\* the output of the fix matches the fix's own pattern again, whatever was
\* matched: the template holds the whole match, or its literal text matches
AlwaysRematches(fix) ==
    \/ \E i \in 1..Len(Expand(fix.string, <<0>>, <<>>)) :
           Expand(fix.string, <<0>>, <<>>)[i] = 0
    \/ /\ \A i \in 1..Len(fix.string) : fix.string[i] # 36
       /\ Exec(fix.regex, fix.string, 0).found

\* the diagnostic's group is one replace rule whose fix output always matches again
PathologicalGroup(d) ==
    LET group == FixGroup(fixes, d) IN
    /\ Len(GroupRules(d.code)) = 1
    /\ Len(group) = 1
    /\ group[1].type = "replace"
    /\ AlwaysRematches(group[1])

\* C1: for a group of one replace rule whose fix output always matches its own
\* pattern again, the fix loop of applyFixes ends after exactly MaxFixIters
\* iterations and applies the substitution exactly MaxFixIters times.
C1_FixpointCap ==
    lastOp = "fixAll" =>
        \A i \in 1..Len(fixRuns) :
            PathologicalGroup(published[i]) =>
                fixRuns[i].applied = MaxFixIters /\ fixRuns[i].iters = MaxFixIters

\* a pathological group was fixed, and the capped loop changed the text
C1_Witness ==
    /\ lastOp = "fixAll"
    /\ \E i \in 1..Len(fixRuns) :
          /\ PathologicalGroup(published[i])
          /\ fixRuns[i].applied = MaxFixIters
          /\ fixRuns[i].fixedText.v # GetText(text, fixRuns[i].editRange)

\* C2: when the text is the result of applying the edits of a fix-all whose
\* loops all stopped before the cap, fix-all on the rescanned text returns no edit.
C2_FixAllIdempotent ==
    (lastOp = "fixAll" /\ applied = "fixpoint") => edits = <<>>

\* a < b on positions
PosLess(a, b) == ~PosLeq(b, a)

\* the two ranges share at least one character
RangesOverlap(r, other) ==
    PosLess(PosMax(r.start, other.start), PosMin(r.end, other.end))

\* C3: diagnostics of the same group over overlapping spans are published as
\* one diagnostic: no two published diagnostics of a group overlap.
C3_MergedPerGroup ==
    \A i, j \in 1..Len(published) :
        (i # j /\ published[i].code = published[j].code)
            => ~RangesOverlap(effectiveRange(published[i]), effectiveRange(published[j]))

\* the texts of the matches of a regex, in document order
RECURSIVE MatchTexts(_, _, _)
MatchTexts(t, re, from) ==
    LET m == Exec(re, t, from) IN
    IF ~m.found THEN <<>>
    ELSE <<MatchText(t, m)>> \o MatchTexts(t, re, m.end)

\* the sort tokens of the matches of a reorder rule, in document order
SortTokens(rule) ==
    LET ms == MatchTexts(text, rule.regex, 0) IN
    [k \in 1..Len(ms) |-> Replace(ms[k], rule.regex, rule.fix.v)]

\* the tokens are sorted in the direction of the fix type
InOrder(fixType, tokens) ==
    \A k \in 1..(Len(tokens) - 1) :
        IF fixType = "reorder_asc"
        THEN StrLeq(tokens[k], tokens[k + 1])
        ELSE StrLeq(tokens[k + 1], tokens[k])

\* the rules of the document's language
ActiveRules == RulesFor(RuleAll, languageId)

IsReorder(rule) == rule.fixType \in {"reorder_asc", "reorder_desc"}

\* C4: a reorder rule is reported if and only if the sort tokens of its
\* matches, in document order, are not sorted in the rule's direction; equal
\* tokens are no inversion.  Rules may share an id, so the ordering
\* diagnostics of an id are counted against the unordered rules of that id.
C4_OrderDetection ==
    \A r \in 1..Len(ActiveRules) :
        IsReorder(ActiveRules[r]) =>
            Cardinality({i \in 1..Len(published) :
                            /\ published[i].ruleId = ActiveRules[r].id
                            /\ published[i].code = ActiveRules[r].name
                            /\ published[i].relatedInformation # Undefined})
              = Cardinality({q \in 1..Len(ActiveRules) :
                            /\ IsReorder(ActiveRules[q])
                            /\ ActiveRules[q].id = ActiveRules[r].id
                            /\ ActiveRules[q].name = ActiveRules[r].name
                            /\ ~InOrder(ActiveRules[q].fixType, SortTokens(ActiveRules[q]))})

\* an ascending rule with two equal tokens followed by a smaller one is reported
C4_Witness ==
    \E r \in 1..Len(ActiveRules) :
        /\ ActiveRules[r].fixType = "reorder_asc"
        /\ Len(SortTokens(ActiveRules[r])) >= 3
        /\ SortTokens(ActiveRules[r])[1] = SortTokens(ActiveRules[r])[2]
        /\ StrLess(SortTokens(ActiveRules[r])[3], SortTokens(ActiveRules[r])[2])
        /\ \E i \in 1..Len(published) :
              /\ published[i].ruleId = ActiveRules[r].id
              /\ published[i].relatedInformation # Undefined

\* the two sequences hold the same elements the same number of times
IsPermutation(a, b) ==
    /\ Len(a) = Len(b)
    /\ \A k \in 1..Len(a) :
          Cardinality({i \in 1..Len(a) : a[i] = a[k]})
              = Cardinality({i \in 1..Len(b) : b[i] = a[k]})

\* the reorder diagnostics the rule keyed engine fixes
ReorderFixed(i) ==
    /\ published[i].relatedInformation # Undefined
    /\ FixMapLookup(RuleAll, published[i].ruleId) # Undefined
    /\ FixMapLookup(RuleAll, published[i].ruleId).v.type \in {"reorder_asc", "reorder_desc"}

\* C5: for a reorder diagnostic, applyReorderFix emits one edit per span, in
\* span order; the new texts are a permutation of the spans' texts in the
\* unedited document; and the sort tokens of the new texts, in span order, are
\* sorted in the direction of the fix.
C5_ReorderPermutation ==
    lastOp = "fixAllByRule" =>
        \A i \in 1..Len(published) :
            ReorderFixed(i) =>
                LET fix == FixMapLookup(RuleAll, published[i].ruleId).v
                    spans == DiagnosticRanges(published[i])
                    es == fixRuns[i]
                IN  /\ Len(es) = Len(spans)
                    /\ \A k \in 1..Len(es) : es[k].range = spans[k]
                    /\ IsPermutation([k \in 1..Len(es) |-> es[k].newText],
                                     [k \in 1..Len(spans) |-> GetText(text, spans[k])])
                    /\ InOrder(fix.type,
                               [k \in 1..Len(es) |->
                                   Replace(es[k].newText, fix.regex, fix.string)])

\* three spans of which the first two swap their texts and the third keeps its own
C5_Witness ==
    /\ lastOp = "fixAllByRule"
    /\ \E i \in 1..Len(published) :
          /\ ReorderFixed(i)
          /\ Len(fixRuns[i]) = 3
          /\ fixRuns[i][1].newText = GetText(text, DiagnosticRanges(published[i])[2])
          /\ fixRuns[i][2].newText = GetText(text, DiagnosticRanges(published[i])[1])
          /\ fixRuns[i][3].newText = GetText(text, DiagnosticRanges(published[i])[3])
          /\ fixRuns[i][1].newText # fixRuns[i][2].newText

\* the ranges of the matches of a regex in the document
RECURSIVE MatchRanges(_, _, _)
MatchRanges(t, re, from) ==
    LET m == Exec(re, t, from) IN
    IF ~m.found THEN {}
    ELSE {[start |-> PositionAt(t, m.index), end |-> PositionAt(t, m.end)]}
             \cup MatchRanges(t, re, m.end)

\* C6: a replace rule scanned with maxLines = 1 reports no match that spans two
\* lines; scanned with maxLines = 0 every match is reported.
C6_WindowingBoundary ==
    \A r \in 1..Len(ActiveRules) :
        ActiveRules[r].fixType = "replace" =>
            /\ ActiveRules[r].maxLines = 1 =>
                  \A i \in 1..Len(published) :
                      (published[i].ruleId = ActiveRules[r].id
                          /\ published[i].code = ActiveRules[r].name)
                          => published[i].range.start.line = published[i].range.end.line
            /\ ActiveRules[r].maxLines = 0 =>
                  \A range \in MatchRanges(text, ActiveRules[r].regex, 0) :
                      \E i \in 1..Len(published) :
                          /\ published[i].ruleId = ActiveRules[r].id
                          /\ published[i].range = range

\* an entry of the 'rules' setting that is well formed
ValidEntry(c) ==
    /\ Truthy(c.message) /\ Truthy(c.name) /\ TruthySeq(c.pattern)
    /\ (c.fixType = Undefined
           \/ (c.fixType.t = "value"
                  /\ c.fixType.v \in {"replace", "reorder_asc", "reorder_desc"}))
    /\ (c.severity = Undefined
           \/ (c.severity.t = "value"
                  /\ c.severity.v \in {"Error", "Warning", "Information", "Hint"}))
    /\ (c.maxLines = Undefined \/ (c.maxLines.t = "value" /\ c.maxLines.v >= 0))
    /\ (c.language = Undefined \/ Truthy(c.language))
    /\ c.fix # Null
    /\ NewRegExp(c.pattern.v).ok

\* C7: rule compilation never raises to its caller, and every valid entry of
\* the configuration is in the active set afterwards.
C7_ConfigErrorsIsolated ==
    lastOp = "monitorRules" =>
        /\ ~threw
        /\ \A k \in 1..Len(configuration.rules.v) :
              ValidEntry(configuration.rules.v[k]) =>
                  \E r \in 1..Len(RuleAll) :
                      /\ RuleAll[r].id = <<47>> \o configuration.rules.v[k].pattern.v \o <<47>>
                      /\ RuleAll[r].name = configuration.rules.v[k].name.v

\* C8: every active rule has a non-empty pattern, message and name, a fix type
\* and a severity of the closed enumerations, and maxLines >= 0.
C8_RuleInvariant ==
    \A r \in 1..Len(RuleAll) :
        /\ Len(RuleAll[r].id) > 2
        /\ RuleAll[r].message # ""
        /\ RuleAll[r].name # ""
        /\ RuleAll[r].fixType \in {"replace", "reorder_asc", "reorder_desc"}
        /\ RuleAll[r].severityCode \in 0..3
        /\ RuleAll[r].maxLines >= 0

\* C9: in every step Rule.rules either keeps its array, with its contents
\* unchanged, or points to a new array that holds the complete batch compiled
\* from the new configuration; an array is never changed in place.
C9_AtomicRuleSwap ==
    [][/\ rulesObj' = rulesObj => rules' = rules
       /\ rulesObj' # rulesObj => rules' = getRules(configuration').rules]_vars

\* a new batch of two rules is in place and the listeners that read it are still to run
C9_Witness ==
    /\ lastOp = "monitorRules"
    /\ ~threw
    /\ Len(pending) = 2
    /\ Len(rules) = 2

\* the handlers that end with a run of refreshDiagnostics
RefreshOps == {"activate", "activateDiagnostics", "textChange", "applyEdits"}

\* C10: after every run of refreshDiagnostics the published list is the list
\* computed from the current text and the current rules, and it is empty when
\* no rule applies to the document's language.
C10_ReplacedWholesale ==
    lastOp \in RefreshOps =>
        /\ published = ScanRules(text, ActiveRules)
        /\ ActiveRules = <<>> => published = <<>>

\* a refresh after a configuration change that left the document without rules
C10_Witness ==
    /\ lastOp = "activateDiagnostics"
    /\ ActiveRules = <<>>
    /\ text # <<>>
    /\ published = <<>>

\* the ranges of the matches of a regex, in document order
RECURSIVE MatchSpans(_, _, _)
MatchSpans(t, re, from) ==
    IF ~Exec(re, t, from).found THEN <<>>
    ELSE <<rangeFromMatch(t, Exec(re, t, from))>> \o MatchSpans(t, re, Exec(re, t, from).end)

\* the published ordering diagnostics of a rule id and group
OrderingDiagnostics(id, name) ==
    {i \in 1..Len(published) :
        /\ published[i].ruleId = id
        /\ published[i].code = name
        /\ published[i].relatedInformation # Undefined}

\* the diagnostic lists the spans: the first as its range, the others as related ranges
CoversSpans(d, spans) ==
    /\ spans # <<>>
    /\ d.range = spans[1]
    /\ Len(d.relatedInformation.v) = Len(spans) - 1
    /\ \A k \in 1..(Len(spans) - 1) : d.relatedInformation.v[k].location.range = spans[k + 1]

\* C11: an unordered reorder rule is reported by one diagnostic whose range is
\* the first match and whose related ranges are all the other matches of the
\* rule in document order, each once and the first match not among them; a
\* rule id never has more ordering diagnostics than it has reorder rules.
C11_OneDiagnosticPerSequence ==
    \A r \in 1..Len(ActiveRules) :
        IsReorder(ActiveRules[r]) =>
            /\ \A i \in OrderingDiagnostics(ActiveRules[r].id, ActiveRules[r].name) :
                  CoversSpans(published[i], MatchSpans(text, ActiveRules[r].regex, 0))
            /\ Cardinality(OrderingDiagnostics(ActiveRules[r].id, ActiveRules[r].name))
                  <= Cardinality({q \in 1..Len(ActiveRules) :
                                    /\ IsReorder(ActiveRules[q])
                                    /\ ActiveRules[q].id = ActiveRules[r].id
                                    /\ ActiveRules[q].name = ActiveRules[r].name})
            /\ ~InOrder(ActiveRules[r].fixType, SortTokens(ActiveRules[r]))
                  => OrderingDiagnostics(ActiveRules[r].id, ActiveRules[r].name) # {}

\* an ascending rule with four matches and inversions at the second and the
\* fourth is reported once, with the three other matches as related ranges
C11_Witness ==
    \E r \in 1..Len(ActiveRules) :
        /\ ActiveRules[r].fixType = "reorder_asc"
        /\ Len(SortTokens(ActiveRules[r])) = 4
        /\ StrLess(SortTokens(ActiveRules[r])[2], SortTokens(ActiveRules[r])[1])
        /\ StrLess(SortTokens(ActiveRules[r])[4], SortTokens(ActiveRules[r])[3])
        /\ Cardinality(OrderingDiagnostics(ActiveRules[r].id, ActiveRules[r].name)) = 1
        /\ \E i \in OrderingDiagnostics(ActiveRules[r].id, ActiveRules[r].name) :
              Len(published[i].relatedInformation.v) = 3

\* the sort token of a span: its text with the rule's substitution applied
SpanToken(ranges, fix, j) == Replace(GetText(text, ranges[j]), fix.regex, fix.string)

\* span m comes before span j in the stable order of the fix
SpanBefore(ranges, fix, m, j) ==
    \/ fix.type = "reorder_asc" /\ StrLess(SpanToken(ranges, fix, m), SpanToken(ranges, fix, j))
    \/ fix.type = "reorder_desc" /\ StrLess(SpanToken(ranges, fix, j), SpanToken(ranges, fix, m))
    \/ SpanToken(ranges, fix, m) = SpanToken(ranges, fix, j) /\ m < j

\* the number of spans that come before span j in the stable order
StableRank(ranges, fix, j) ==
    Cardinality({m \in 1..Len(ranges) : SpanBefore(ranges, fix, m, j)})

\* the edits of one reorder fix place every span at its stable rank
StablyReordered(run, ranges, fix) ==
    /\ Len(run) = Len(ranges)
    /\ \A j \in 1..Len(ranges) :
          run[StableRank(ranges, fix, j) + 1].newText = GetText(text, ranges[j])

\* the reorder fix of the i-th own diagnostic, Undefined if it has none
ReorderFixOf(i) ==
    IF FixMapLookup(RuleAll, OwnDiagnostics(published)[i].ruleId) # Undefined
       /\ FixMapLookup(RuleAll, OwnDiagnostics(published)[i].ruleId).v.type
              \in {"reorder_asc", "reorder_desc"}
    THEN FixMapLookup(RuleAll, OwnDiagnostics(published)[i].ruleId)
    ELSE Undefined

\* C12: the reorder fix is a stable sort: every span is moved to the place
\* given by its token, and spans with equal tokens keep their original
\* relative order, ascending and descending
C12_StableReorder ==
    lastOp = "fixAllByRule" =>
        \A i \in 1..Len(fixRuns) :
            ReorderFixOf(i) # Undefined =>
                StablyReordered(fixRuns[i], DiagnosticRanges(OwnDiagnostics(published)[i]),
                                ReorderFixOf(i).v)

\* every fix of the group is a replace fix
ReplaceGroup(fixGroup) == \A k \in 1..Len(fixGroup) : fixGroup[k].type = "replace"

\* some fix of the group matches the text
AnyMatches(fixGroup, t) == \E k \in 1..Len(fixGroup) : Exec(fixGroup[k].regex, t, 0).found

\* the substitutions of the group applied in sequence
RECURSIVE SeqApply(_, _)
SeqApply(fixGroup, t) ==
    IF fixGroup = <<>> THEN t
    ELSE SeqApply(Tail(fixGroup), Replace(t, Head(fixGroup).regex, Head(fixGroup).string))

\* the text after k rounds of the substitutions of the group
RECURSIVE Passes(_, _, _)
Passes(fixGroup, t, k) ==
    IF k = 0 THEN t ELSE SeqApply(fixGroup, Passes(fixGroup, t, k - 1))

\* the outcome of one fix loop is the fixpoint iteration of its group
ReplaceFixpoint(run, fixGroup, rangeText) ==
    /\ run.fixedText # Undefined <=> AnyMatches(fixGroup, rangeText)
    /\ ~run.capped =>
          /\ \A k \in 0..(run.iters - 1) : AnyMatches(fixGroup, Passes(fixGroup, rangeText, k))
          /\ ~AnyMatches(fixGroup, Passes(fixGroup, rangeText, run.iters))
          /\ run.fixedText # Undefined =>
                 run.fixedText.v = Passes(fixGroup, rangeText, run.iters)

\* C13: for a group of replace fixes every iteration applies the fixes of the
\* group in sequence, the loop stops at the first iteration in which none
\* matched, so a loop that stops before the cap leaves a text no fix of the
\* group matches, and an edit is emitted exactly when some fix matched
C13_ReplaceFixpoint ==
    lastOp = "fixAll" =>
        \A i \in 1..Len(fixRuns) :
            ReplaceGroup(FixGroup(fixes, OwnDiagnostics(published)[i])) =>
                ReplaceFixpoint(fixRuns[i], FixGroup(fixes, OwnDiagnostics(published)[i]),
                                GetText(text, fixRuns[i].editRange))

\* a loop of two fixes that stops before the cap after two iterations, the
\* second fix matching in the first and the first fix in the second
C13_Witness ==
    /\ lastOp = "fixAll"
    /\ \E i \in 1..Len(fixRuns) :
          /\ Len(FixGroup(fixes, OwnDiagnostics(published)[i])) = 2
          /\ ReplaceGroup(FixGroup(fixes, OwnDiagnostics(published)[i]))
          /\ ~fixRuns[i].capped
          /\ fixRuns[i].iters = 2
          /\ fixRuns[i].fixedText # Undefined
          /\ ~Exec(FixGroup(fixes, OwnDiagnostics(published)[i])[1].regex,
                   GetText(text, fixRuns[i].editRange), 0).found

\* C14: the edit list of a fix-all has no two edits whose ranges overlap
C14_NonOverlappingEdits ==
    lastOp = "fixAll" =>
        \A i, j \in 1..Len(edits) :
            i # j => ~RangesOverlap(edits[i].range, edits[j].range)

\* range r contains the range other
RangeContains(r, other) == PosLeq(r.start, other.start) /\ PosLeq(other.end, r.end)

\* C15: the edit range of a target diagnostic contains the effective range of
\* every diagnostic of the list connected to the target through intersecting
\* ranges: no diagnostic whose effective range intersects the edit range is
\* left outside of it
C15_EditRangeUnion ==
    lastOp = "fixAll" =>
        \A i, j \in 1..Len(fixRuns) :
            RangeIntersects(effectiveRange(OwnDiagnostics(published)[j]), fixRuns[i].editRange)
                => RangeContains(fixRuns[i].editRange,
                                 effectiveRange(OwnDiagnostics(published)[j]))

\* the text after n rounds of the substitutions of the group, the first half
\* of the rounds before the second
RECURSIVE Rounds(_, _, _)
Rounds(fixGroup, t, n) ==
    IF n = 0 THEN t
    ELSE IF n = 1 THEN SeqApply(fixGroup, t)
    ELSE CHOOSE r \in { Rounds(fixGroup, half, n - (n \div 2)) :
                            half \in {Rounds(fixGroup, t, n \div 2)} } : TRUE

\* the edit of the i-th loop among the edits of applyFixes
RunEdit(i) == edits[Cardinality({k \in 1..i : fixRuns[k].fixedText # Undefined})]

\* the loop of a replace group ended at the cap with a fix that still matches
CappedMatching(run, fixGroup, rangeText) ==
    /\ ReplaceGroup(fixGroup)
    /\ run.capped
    /\ AnyMatches(fixGroup, Rounds(fixGroup, rangeText, MaxFixIters))

\* C16: a replace loop that reaches the cap while a fix of the group still
\* matches ends normally and emits one edit over its edit range whose text is
\* the text after the last of the MaxFixIters iterations
C16_CapNotFailure ==
    lastOp = "fixAll" =>
        /\ Len(edits) = Cardinality({k \in 1..Len(fixRuns) : fixRuns[k].fixedText # Undefined})
        /\ \A i \in 1..Len(fixRuns) :
              CappedMatching(fixRuns[i], FixGroup(fixes, OwnDiagnostics(published)[i]),
                             GetText(text, fixRuns[i].editRange)) =>
                  /\ fixRuns[i].fixedText # Undefined
                  /\ RunEdit(i) =
                        [range |-> fixRuns[i].editRange,
                         newText |-> Rounds(FixGroup(fixes, OwnDiagnostics(published)[i]),
                                            GetText(text, fixRuns[i].editRange), MaxFixIters)]

\* a loop ended at the cap with a fix still matching, and its edit changes the text
C16_Witness ==
    /\ lastOp = "fixAll"
    /\ \E i \in 1..Len(fixRuns) :
          /\ CappedMatching(fixRuns[i], FixGroup(fixes, OwnDiagnostics(published)[i]),
                            GetText(text, fixRuns[i].editRange))
          /\ fixRuns[i].iters = MaxFixIters
          /\ fixRuns[i].fixedText # Undefined
          /\ RunEdit(i).newText # GetText(text, RunEdit(i).range)

\* C17: every match test of a fix loop starts at offset 0 of the text it is
\* given: no test of the replace loop of the quick fix engine starts from a
\* cursor an earlier test left behind
C17_FreshScanCursor ==
    lastOp = "quickFixAll" =>
        \A i \in 1..Len(fixRuns) :
            fixRuns[i] # Undefined =>
                \A k \in 1..Len(fixRuns[i].v.run.tests) : fixRuns[i].v.run.tests[k] = 0

\* C18: every published diagnostic originates from a rule whose language is
\* the language identifier of the document
C18_LanguageScoping ==
    \A i \in 1..Len(published) :
        \E k \in 1..Len(RuleAll) :
            /\ RuleAll[k].language = languageId
            /\ RuleAll[k].id = published[i].ruleId
            /\ RuleAll[k].name = published[i].code

\* a rule of another language matches the text, and the diagnostics published
\* come from the rule of the document's language
C18_Witness ==
    /\ lastOp = "textChange"
    /\ published # <<>>
    /\ \E k \in 1..Len(RuleAll) :
          /\ RuleAll[k].language # languageId
          /\ Exec(RuleAll[k].regex, text, 0).found
          /\ \A i \in 1..Len(published) : published[i].ruleId # RuleAll[k].id

\* the entries of a configuration the filter of getRules accepts
Accepted(cfg) == SelectSeq(Nullish(cfg.rules, Some(<<>>)).v, RuleFilter)

\* the fix type of an entry: replace when unset
ExpectedFixType(c) == IF c.fixType = Undefined THEN "replace" ELSE c.fixType.v

\* maxLines of an entry: when unset 1 for a replace rule, 0 for a reorder rule
ExpectedMaxLines(c) ==
    IF c.maxLines # Undefined THEN c.maxLines.v
    ELSE IF ExpectedFixType(c) = "replace" THEN 1 ELSE 0

\* the fix of an entry: when unset absent for a replace rule, the whole match
\* for a reorder rule
ExpectedFix(c) ==
    IF c.fix # Undefined THEN c.fix
    ELSE IF ExpectedFixType(c) = "replace" THEN Undefined ELSE Some(<<36, 38>>)

\* the fix of an entry when an empty fix of a reorder rule counts as unset
ExpectedFixOrIdentity(c) ==
    IF ExpectedFixType(c) # "replace" /\ c.fix = Some(<<>>) THEN Some(<<36, 38>>)
    ELSE ExpectedFix(c)

\* the severity of an entry: Warning when unset
ExpectedSeverity(c) ==
    IF c.severity = Undefined THEN 1
    ELSE CASE c.severity.v = "Error" -> 0
           [] c.severity.v = "Warning" -> 1
           [] c.severity.v = "Information" -> 2
           [] c.severity.v = "Hint" -> 3

\* the language of an entry: when unset the global language, plaintext without one
ExpectedLanguage(c, cfg) ==
    IF c.language # Undefined THEN c.language.v
    ELSE IF cfg.language # Undefined THEN cfg.language.v ELSE "plaintext"

\* the defaults of every field but the fix
DefaultsApplied(c, cfg, rule) ==
    /\ rule.fixType = ExpectedFixType(c)
    /\ rule.maxLines = ExpectedMaxLines(c)
    /\ rule.severityCode = ExpectedSeverity(c)
    /\ rule.language = ExpectedLanguage(c, cfg)

\* C19 as stated: every accepted entry compiles to a rule with its unset
\* fields at their defaults and every set field, the fix included, unchanged
C19_CompilationDefaults ==
    (lastOp = "monitorRules" /\ ~threw) =>
        /\ Len(RuleAll) = Len(Accepted(configuration))
        /\ \A k \in 1..Len(RuleAll) :
              /\ DefaultsApplied(Accepted(configuration)[k], configuration, RuleAll[k])
              /\ RuleAll[k].fix = ExpectedFix(Accepted(configuration)[k])

\* C19 amended: every accepted entry compiles to a rule with its unset fields
\* at their defaults and every set field unchanged, except that an empty fix
\* of a reorder rule becomes the whole match template like an unset one
C19_CompilationDefaultsAmended ==
    (lastOp = "monitorRules" /\ ~threw) =>
        /\ Len(RuleAll) = Len(Accepted(configuration))
        /\ \A k \in 1..Len(RuleAll) :
              /\ DefaultsApplied(Accepted(configuration)[k], configuration, RuleAll[k])
              /\ RuleAll[k].fix = ExpectedFixOrIdentity(Accepted(configuration)[k])

\* a reorder rule with an empty fix and unset maxLines, severity and language
\* was compiled under a global language
C19_Witness ==
    /\ lastOp = "monitorRules" /\ ~threw
    /\ Len(RuleAll) = 1
    /\ Accepted(configuration)[1].fixType = Some("reorder_desc")
    /\ Accepted(configuration)[1].fix = Some(<<>>)
    /\ Accepted(configuration)[1].maxLines = Undefined
    /\ Accepted(configuration)[1].severity = Undefined
    /\ Accepted(configuration)[1].language = Undefined
    /\ configuration.language = Some("c")
    /\ RuleAll[1].fix = Some(<<36, 38>>)
    /\ RuleAll[1].maxLines = 0
    /\ RuleAll[1].language = "c"

\* the match of a rule with the id that starts at the start of the range
MatchOfRange(id, range) ==
    Exec((CHOOSE rule \in {RuleAll[r] : r \in 1..Len(RuleAll)} : rule.id = id).regex,
         text, OffsetAt(text, range.start))

\* the range ends len characters behind the start of its match
EndsAfter(range, array, len) ==
    /\ array.found
    /\ range.start = PositionAt(text, array.index)
    /\ range.end = PositionAt(text, array.index + len)

\* C20 as stated: every range built from a match starts at the start of the
\* match and ends behind the longest of the groups of the match, the whole
\* match included
C20_EffectiveLength ==
    \A i \in 1..Len(published) :
        \A k \in 1..Len(DiagnosticRanges(published[i])) :
            EndsAfter(DiagnosticRanges(published[i])[k],
                      MatchOfRange(published[i].ruleId, DiagnosticRanges(published[i])[k]),
                      LongestGroup(
                          MatchOfRange(published[i].ruleId,
                                       DiagnosticRanges(published[i])[k]).groups,
                          Len(MatchText(text,
                                  MatchOfRange(published[i].ruleId,
                                               DiagnosticRanges(published[i])[k])))))

\* C20 amended: every range built from a match starts at the start of the
\* match and ends at the end of the whole match, whatever its groups hold
C20_EffectiveLengthAmended ==
    \A i \in 1..Len(published) :
        \A k \in 1..Len(DiagnosticRanges(published[i])) :
            EndsAfter(DiagnosticRanges(published[i])[k],
                      MatchOfRange(published[i].ruleId, DiagnosticRanges(published[i])[k]),
                      Len(MatchText(text,
                              MatchOfRange(published[i].ruleId,
                                           DiagnosticRanges(published[i])[k]))))

\* the range of a match with a group longer than the match was published
C20_Witness ==
    \E i \in 1..Len(published) :
        /\ MatchOfRange(published[i].ruleId, published[i].range).found
        /\ \E g \in 1..Len(MatchOfRange(published[i].ruleId, published[i].range).groups) :
              /\ MatchOfRange(published[i].ruleId, published[i].range).groups[g] # Undefined
              /\ Len(MatchOfRange(published[i].ruleId, published[i].range).groups[g].v)
                     > Len(GetText(text, published[i].range))

\* the comparator holds for the elements of the array before index and for
\* none from index on
PrefixLength(sortedArray, item, comparator, index) ==
    /\ index \in 0..Len(sortedArray)
    /\ \A k \in 1..index : Comparator(comparator, sortedArray[k], item)
    /\ \A k \in (index + 1)..Len(sortedArray) : ~Comparator(comparator, sortedArray[k], item)

\* the tokens are in the order of the fix type
SortedTokens(tokens, fixType) ==
    \A k \in 1..(Len(tokens) - 1) :
        IF fixType = "reorder_asc"
        THEN StrLeq(tokens[k], tokens[k + 1])
        ELSE StrLeq(tokens[k + 1], tokens[k])

\* the index sortedIndex returned is the length of the prefix on which the
\* comparator holds
ReturnsPrefixLength ==
    search.pc = "returned" =>
        /\ PrefixLength(search.sorter, search.item, OrderComparator(search.fixType), search.lo)
        /\ search.lo = sortedIndex(search.sorter, search.item, OrderComparator(search.fixType))

\* C21: every call of sortedIndex returns, the index it returns on the
\* sorter of the order check is the length of the prefix of the elements the
\* comparator holds for, and the sorter stays sorted in the direction of the
\* rule after every insertion at that index
C21_SortedIndex ==
    /\ [](ReturnsPrefixLength /\ SortedTokens(search.sorter, search.fixType))
    /\ (search.pc = "loop") ~> (search.pc = "returned")

\* sortedIndex returned an index inside a sorter that holds the token already
C21_Witness ==
    /\ search.pc = "returned"
    /\ search.fixType = "reorder_desc"
    /\ Len(search.sorter) >= 3
    /\ search.lo > 0 /\ search.lo < Len(search.sorter)
    /\ search.sorter[search.lo] = search.item

\* C22: the replace loop of applyQuickFixes ends after at most
\* MaxFixIterations substitutions; every substitution is followed by one test
C22_QuickLoopCap ==
    lastOp = "quickFixAll" =>
        \A i \in 1..Len(fixRuns) :
            fixRuns[i] # Undefined => Len(fixRuns[i].v.run.tests) <= MaxFixIterations

\* C23: when the fix listener or the diagnostics listener of a configuration
\* change has run, the batch in Rule.rules that it read was compiled from the
\* configuration of that change
C23_HandlersReadNewBatch ==
    lastOp \in {"activateFixes", "activateDiagnostics"} =>
        /\ loaded = configuration
        /\ rules = getRules(configuration).rules

\* the places of the fix list that hold the fix f
FixPlaces(f) == {i \in 1..Len(fixes) : fixes[i] = f}

\* C24: after the fix listener of a configuration change the fix list holds
\* the fix of every active rule that defines one exactly once, with the rule's
\* current regex, template, type, group and language, and nothing else
C24_FixListCurrent ==
    lastOp = "activateFixes" =>
        /\ \A k \in 1..Len(getFixes(RuleAll)) :
              Cardinality(FixPlaces(getFixes(RuleAll)[k])) = 1
        /\ \A i \in 1..Len(fixes) :
              \E k \in 1..Len(getFixes(RuleAll)) : fixes[i] = getFixes(RuleAll)[k]

\* the matches of the fix of the last applyReorderFix call in its text, in
\* document order
RECURSIVE CallMatches(_)
CallMatches(from) ==
    IF ~Exec(fixes[1].regex, call.text, from).found THEN <<>>
    ELSE <<Exec(fixes[1].regex, call.text, from)>>
             \o CallMatches(Exec(fixes[1].regex, call.text, from).end)

\* the sort token of the match m
CallToken(m) == Replace(MatchText(call.text, m), fixes[1].regex, fixes[1].string)

\* match i comes before match j in the stable order of the call's direction
CallBefore(ms, i, j) ==
    \/ IF call.type = "reorder_asc"
       THEN StrLess(CallToken(ms[i]), CallToken(ms[j]))
       ELSE StrLess(CallToken(ms[j]), CallToken(ms[i]))
    \/ CallToken(ms[i]) = CallToken(ms[j]) /\ i < j

\* the match that is k-th in stable sorted order
CallSorted(ms, k) ==
    CHOOSE i \in 1..Len(ms) : Cardinality({j \in 1..Len(ms) : CallBefore(ms, j, i)}) = k - 1

\* the text from offset on with the k-th and later spans filled in sorted order
RECURSIVE CallPermuted(_, _, _)
CallPermuted(ms, k, offset) ==
    IF k > Len(ms) THEN Substring(call.text, offset, Len(call.text))
    ELSE Substring(call.text, offset, ms[k].index)
             \o MatchText(call.text, ms[CallSorted(ms, k)])
             \o CallPermuted(ms, k + 1, ms[k].end)

\* C28: a result of applyReorderFix has the length of the text, keeps every
\* character outside of the matched spans and holds in the k-th span the
\* match that is k-th in stable sorted order
C28_ReorderPermutation ==
    (lastOp = "applyReorderFix" /\ call.result # Undefined) =>
        /\ Len(call.result.v) = Len(call.text)
        /\ call.result.v = CallPermuted(CallMatches(0), 1, 0)

\* the fixes of rules whose language is the document's language
LanguageFixes == SelectSeq(fixes, LAMBDA fix : fix.language = languageId)

\* C29: the edits of applyFixes are those computed with the fixes of the
\* document's language alone; a fix of a rule for another language has no
\* part in them
C29_FixLanguageScoping ==
    lastOp = "fixAll" =>
        edits = applyFixes(text, OwnDiagnostics(published), LanguageFixes)

\* C27: once the handlers of an event have run, the published diagnostics of
\* the active editor's document are those computed from its current text and
\* the current rule batch
C27_ActiveDocumentCurrent ==
    pending = <<>> =>
        published = ScanRules(text, RulesFor(RuleAll, languageId))

\* the listeners of a configuration change have run: the list of the active
\* editor's document is current and not empty, the list of the other
\* editor's document is not the one its text and the new rules give
C27_Witness ==
    /\ lastOp = "activateDiagnostics"
    /\ pending = <<>>
    /\ published # <<>>
    /\ background.published #
           ScanRules(background.text, RulesFor(RuleAll, background.languageId))

\* the languages of the rules
Languages == {"plaintext", "nim"}

\* the fixes of the fixes array that have the language l
FixesOf(l) == {i \in 1..Len(fixes) : fixes[i].language = l}

\* C25: once the listeners of a configuration change have run, disposableCache
\* holds for every language the number of fixes of that language as its
\* count, and providers are registered for exactly the languages of the fixes
C25_ProviderCount ==
    pending = <<>> =>
        \A l \in Languages :
            /\ l \in DOMAIN disposableCache <=> FixesOf(l) # {}
            /\ l \in DOMAIN disposableCache =>
                   disposableCache[l].count = Cardinality(FixesOf(l))

\* C26: the edits of a registered provider are those that applyFixes computes
\* from the fixes array as it is at the time of the call
C26_ProviderFixesCurrent ==
    lastOp = "fixAll" =>
        edits = applyFixes(text, OwnDiagnostics(published), fixes)

====
